---- MODULE Spec2Model ----
(***************************************************************************)
(* Secure Cloud Storage (SCS): the browser client (crypto module, API      *)
(* client, storage manager, Supabase and Local providers, application      *)
(* controller) as a state machine.                                         *)
(*                                                                         *)
(* Cryptographic primitives (SHA-256, PBKDF2, AES-GCM) are symbolic terms: *)
(* two terms are equal exactly when they were built from equal inputs.     *)
(* Encodings (hex <-> bytes, lower-casing, trimming) are computed.         *)
(***************************************************************************)
EXTENDS Integers, Sequences, FiniteSets, TLC

(***************************************************************************)
(* Bounds of the model                                                     *)
(***************************************************************************)
MaxUploads == 2
MaxDownloads == 1
MaxDeletes == 1
MaxAuths == 2
MaxReloads == 1
MaxTampers == 1
MaxSettings == 1
\* Operations (submissions, uploads, downloads, deletes, reloads, corruptions,
\* settings changes)
\* started in one run.
MaxOperations == 4

\* With this many loadFiles calls awaiting an answer the refresh button is not
\* clicked.
MaxLists == 1
\* Random arrays drawn before an encryptFile call of the round trip.
MaxDraws == 3

(***************************************************************************)
(* Program constants                                                       *)
(***************************************************************************)
SALT_BYTES == 16
IV_BYTES == 12
MAX_UPLOAD_SIZE == 50 * 1024 * 1024

(***************************************************************************)
(* JavaScript values                                                       *)
(***************************************************************************)
Null == [k |-> "null"]
Str(chars) == [k |-> "str", v |-> chars]
\* A string whose characters play no part
Text(s) == [k |-> "text", v |-> s]
IsNull(x) == x.k = "null"

\* Bytes the random source fills an array with, after the first.
ByteSamples == {171}

HexDigits == <<"0", "1", "2", "3", "4", "5", "6", "7",
               "8", "9", "a", "b", "c", "d", "e", "f">>

IsHexDigit(c) == \E i \in 1..16 : HexDigits[i] = c
HexValue(c) == (CHOOSE i \in 1..16 : HexDigits[i] = c) - 1

\* Number.prototype.toString(16) of a byte: one or two digits.
ToString16(b) ==
    IF b < 16 THEN <<HexDigits[b + 1]>>
    ELSE <<HexDigits[(b \div 16) + 1], HexDigits[(b % 16) + 1]>>

\* String.prototype.padStart(2, '0')
PadStart2(s) == IF Len(s) < 2 THEN <<"0">> \o s ELSE s

RECURSIVE JoinHex(_)
JoinHex(parts) ==
    IF parts = <<>> THEN <<>> ELSE Head(parts) \o JoinHex(Tail(parts))

bufferToHex_NoPad(buffer) == JoinHex([i \in 1..Len(buffer) |-> ToString16(buffer[i])])

bufferToHex(buffer) ==
    JoinHex([i \in 1..Len(buffer) |-> PadStart2(ToString16(buffer[i]))])

\* parseInt(hex.substr(i, 2), 16) stored into a Uint8Array element:
\* NaN is stored as 0, a valid first digit followed by a non-digit parses
\* as the first digit alone.
ParseByte(hex, i) ==
    IF ~IsHexDigit(hex[i]) THEN 0
    ELSE IF i + 1 > Len(hex) \/ ~IsHexDigit(hex[i + 1]) THEN HexValue(hex[i])
    ELSE 16 * HexValue(hex[i]) + HexValue(hex[i + 1])

hexToBytes(hex) == [j \in 1..(Len(hex) \div 2) |-> ParseByte(hex, 2 * j - 1)]

\* crypto.getRandomValues on a fresh array: the n-th draw of the page differs
\* from every earlier draw in its first byte; the other bytes are b.
RandomArray(bytes, n, b) == [i \in 1..bytes |-> IF i = 1 THEN n ELSE b]

\* generateRandomHex as it would be with one array drawn at page load.
generateRandomHex_DrawnOnce(bytes, n, b) ==
    JoinHex([i \in 1..bytes |-> PadStart2(ToString16(RandomArray(bytes, 0, b)[i]))])

generateRandomHex(bytes, n, b) ==
    JoinHex([i \in 1..bytes |-> PadStart2(ToString16(RandomArray(bytes, n, b)[i]))])

(***************************************************************************)
(* Key derivation, hashing, AES-GCM                                        *)
(***************************************************************************)
ToLowerChar(c) == CASE c = "U" -> "u" [] c = "V" -> "v" [] OTHER -> c

RECURSIVE TrimLeft(_)
TrimLeft(s) == IF s # <<>> /\ Head(s) = " " THEN TrimLeft(Tail(s)) ELSE s

RECURSIVE TrimRight(_)
TrimRight(s) ==
    IF s # <<>> /\ s[Len(s)] = " " THEN TrimRight(SubSeq(s, 1, Len(s) - 1)) ELSE s

Trim(s) == TrimRight(TrimLeft(s))

\* The email as it was typed, neither lower-cased nor trimmed.
NormalizeEmail_AsTyped(email) == email.v

\* email.toLowerCase().trim()
NormalizeEmail(email) == Trim([i \in 1..Len(email.v) |-> ToLowerChar(email.v[i])])

\* new Uint8Array(SHA-256(email.toLowerCase().trim())).slice(0, 16)
AuthSalt(email) == [k |-> "SHA-256[0:16]", data |-> NormalizeEmail(email)]

AuthSaltHex(email) == [k |-> "hex", of |-> AuthSalt(email)]

hashEmail(email) == [k |-> "SHA-256", data |-> NormalizeEmail(email)]

hashFile(data) == [k |-> "SHA-256", data |-> data]

\* PBKDF2 deriveBits, hex encoded: the authentication token.
hashPassword(password, salt) ==
    [k |-> "PBKDF2-bits", password |-> password, authSalt |-> salt]

\* PBKDF2 deriveKey: a non-extractable AES-256-GCM key.
deriveKey(password, salt) ==
    [k |-> "AES-key", password |-> password, salt |-> salt]

AesGcmEncrypt(key, iv, data) ==
    [k |-> "AES-GCM", key |-> key, iv |-> iv, data |-> data, intact |-> TRUE]

TagVerifies_IgnoringDamage(key, iv, ciphertext) ==
    ciphertext.k = "AES-GCM" /\ ciphertext.key = key /\ ciphertext.iv = iv

\* crypto.subtle.decrypt: the tag verifies only under the key and iv of the
\* encryption and only for an unaltered ciphertext.
TagVerifies(key, iv, ciphertext) ==
    /\ ciphertext.k = "AES-GCM"
    /\ ciphertext.intact
    /\ ciphertext.key = key
    /\ ciphertext.iv = iv

\* An exception: its name and the words of its message.
Error(name, message) == [k |-> "error", name |-> name, message |-> message]

OperationError == Error("OperationError", <<>>)

encryptFile(data, password, n, bs, bi) ==
    LET salt == hexToBytes(generateRandomHex(SALT_BYTES, n, bs))
        iv == hexToBytes(generateRandomHex(IV_BYTES, n + 1, bi))
        fileHash == hashFile(data)
        key == deriveKey(password, salt)
        ciphertext == AesGcmEncrypt(key, iv, data)
    IN [ciphertext |-> ciphertext,
        iv |-> bufferToHex(iv),
        salt |-> bufferToHex(salt),
        fileHash |-> fileHash]

decryptFile(ciphertext, ivHex, saltHex, password) ==
    LET iv == hexToBytes(ivHex)
        salt == hexToBytes(saltHex)
        key == deriveKey(password, salt)
    IN IF TagVerifies(key, iv, ciphertext) THEN ciphertext.data ELSE OperationError

(***************************************************************************)
(* Inputs                                                                  *)
(***************************************************************************)
Emails == {Str(<<"u", "@", "x", ".", "i", "o">>)}

Password(v, length) == [k |-> "password", v |-> v, length |-> length]

\* The password of an account, and what can be typed where a password is asked.
AccountPasswords == {Password("Str0ngP@ss!", 11)}
Passwords == AccountPasswords \cup {Password("wrongpass", 9)}

Name(base, n) == [k |-> "name", base |-> base, n |-> n]

Data(v) == [k |-> "data", v |-> v]

\* File objects the user can pick: one of exactly the size limit, one a byte
\* larger.
Files == {[name |-> Name("a.txt", 0), size |-> MAX_UPLOAD_SIZE, data |-> Data("50 MB")],
          [name |-> Name("b.bin", 0), size |-> MAX_UPLOAD_SIZE + 1, data |-> Data("50 MB + 1")]}

\* File cards the dashboard can show: a name once listed stays clickable
\* until the next rendering.
ListedNames == {Name("a.txt", 0)}

Providers == {"Supabase Cloud", "Local Server"}

\* What the settings dialog can save.
SettingChoices == {"managed", "supabase", "local"}
SupabaseUrls == {Text("https://project.supabase.co")}
SupabaseKeys == {Text("anon-key")}

\* /^[a-zA-Z0-9._%+\-]+@[a-zA-Z0-9.\-]+\.[a-zA-Z]{2,}$/ on the characters used here
IsLetter(c) == c \in {"u", "v", "x", "i", "o", "U", "V"}
validateEmail(email) ==
    LET s == email.v
    IN \E at \in 2..Len(s), dot \in 3..Len(s) :
          /\ s[at] = "@"
          /\ s[dot] = "."
          /\ at + 1 < dot
          /\ dot + 2 <= Len(s)
          /\ \A i \in 1..(at - 1) : IsLetter(s[i]) \/ s[i] = "."
          /\ \A i \in (at + 1)..(dot - 1) : IsLetter(s[i]) \/ s[i] = "."
          /\ \A i \in (dot + 1)..Len(s) : IsLetter(s[i])

(***************************************************************************)
(* State                                                                   *)
(***************************************************************************)
VARIABLES
    currentEmail,          \* app state: session email
    currentPasswordHash,   \* app state: PBKDF2 authentication token
    currentSalt,           \* app state: authentication salt (hex)
    isUploading,           \* app state: upload in-progress flag
    downloadTarget,        \* app state: file of the decrypt dialog
    deleteTarget,          \* app state: file of the delete dialog
    downloadModal,         \* the decrypt dialog is displayed
    deleteModal,           \* the delete dialog is displayed
    sessionStorage,        \* scs_email, scs_hash, scs_salt
    localStorage,          \* scs_provider, scs_supabase_url, scs_supabase_key
    screen,                \* the screen SCSUI.showScreen made active
    provider,              \* SCSStorage.currentProvider
    auth,                  \* register / login submissions
    up,                    \* handleFileUpload invocations
    down,                  \* performDecrypt invocations
    del,                   \* performDelete invocations
    rng,                   \* random arrays drawn so far
    users,                 \* auth backend: accounts
    bucket,                \* Supabase bucket scs_files: path -> blob
    table,                 \* Supabase table scs_metadata: (email, filename) -> metadata
    localStore,            \* Local Server storage: (user, stored name) -> blob + metadata
    apiReceived,           \* requests the Local Server (FastAPI) received
    cloudReceived,         \* requests Supabase received
    reloads,               \* page reloads so far
    tampers,               \* storage corruptions so far
    settings,              \* settings saved so far
    rt,                    \* encryptFile / decryptFile applied to chosen inputs
    dashboard              \* upload zone, refresh timers, cachedFiles, loadFiles invocations

sessionVars == <<currentEmail, currentPasswordHash, currentSalt, sessionStorage>>
appVars == <<isUploading, downloadTarget, deleteTarget, downloadModal, deleteModal,
             screen, provider>>
taskVars == <<auth, up, down, del>>
backendVars == <<users, bucket, table, localStore>>
wireVars == <<apiReceived, cloudReceived>>
countVars == <<reloads, tampers, settings>>
vars == <<sessionVars, appVars, taskVars, rng, backendVars, wireVars, localStorage,
          countVars, rt, dashboard>>

Idle == [pc |-> "idle"]

\* The lowest invocation slot not used yet.
FreeSlot(tasks) == IF \E i \in DOMAIN tasks : tasks[i].pc = "idle"
                   THEN {CHOOSE i \in DOMAIN tasks :
                            /\ tasks[i].pc = "idle"
                            /\ \A j \in DOMAIN tasks : tasks[j].pc = "idle" => i <= j}
                   ELSE {}

Started(tasks) == Cardinality({i \in DOMAIN tasks : tasks[i].pc # "idle"})

\* An operation may still be started in this run.
MayStart ==
    Started(auth) + Started(up) + Started(down) + Started(del) + reloads + tampers
        + settings < MaxOperations

(***************************************************************************)
(* Keyed stores                                                            *)
(***************************************************************************)
Has(store, key) == \E e \in store : e.key = key
Get(store, key) == (CHOOSE e \in store : e.key = key).val
Upsert(store, key, val) == {e \in store : e.key # key} \cup {[key |-> key, val |-> val]}
Remove(store, key) == {e \in store : e.key # key}

(***************************************************************************)
(* The dashboard: upload zone, refresh timers, cached file list            *)
(***************************************************************************)
\* The dashboard is left out of the state.
Untraced == [k |-> "untraced"]

Traced(d) == d.k = "dashboard"

\* The dashboard of a freshly loaded page: the drop zone is displayed, no
\* timer is pending, cachedFiles = [], loadFiles was never called.  lists are
\* the loadFiles calls awaiting listFiles, in the order they started; latest
\* is the state of the call started last.
FreshDashboard ==
    [k |-> "dashboard", zone |-> "upload-zone-content", timers |-> 0, cachedFiles |-> {},
     lists |-> <<>>, latest |-> [pc |-> "none"]]

showUploadProgress(d) == IF Traced(d) THEN [d EXCEPT !.zone = "upload-progress"] ELSE d

resetUploadZone(d) == IF Traced(d) THEN [d EXCEPT !.zone = "upload-zone-content"] ELSE d

\* setTimeout(..., 1500) of a successful upload
setTimeout(d) == IF Traced(d) THEN [d EXCEPT !.timers = @ + 1] ELSE d

\* loadFiles up to its await: SCSStorage.listFiles(currentEmail) is called.
loadFiles(d, email, via) ==
    IF Traced(d)
    THEN [d EXCEPT !.lists = Append(@, [pc |-> "requesting", email |-> email, via |-> via]),
                   !.latest = [pc |-> "requesting"]]
    ELSE d

EmptySession == [scs_email |-> Null, scs_hash |-> Null, scs_salt |-> Null]

NoSettings == [scs_provider |-> Null, scs_supabase_url |-> Null, scs_supabase_key |-> Null]

\* JavaScript truthiness of a string or null
Truthy(x) == ~IsNull(x) /\ ~(x.k = "str" /\ x.v = <<>>)

\* SCSSupabaseProvider.init: false without url or key, or when createClient
\* throws (created = FALSE).
SupabaseInit(url, key, created) == Truthy(url) /\ Truthy(key) /\ created

\* SCSStorage.currentProvider before setProvider is called: null, which
\* getProviderName names 'None'.
NoProvider == "None"

\* initStorage without the else branches that fall back to SCSLocalProvider.
initStorage_NoFallback(stored, created) ==
    LET choice == IF Truthy(stored.scs_provider) THEN stored.scs_provider.v ELSE "managed"
    IN IF choice = "supabase"
       THEN IF SupabaseInit(stored.scs_supabase_url, stored.scs_supabase_key, created)
            THEN "Supabase Cloud" ELSE NoProvider
       ELSE IF choice = "managed"
       THEN IF SupabaseInit(Text("MANAGED_CONFIG.url"), Text("MANAGED_CONFIG.key"), created)
            THEN "Supabase Cloud" ELSE NoProvider
       ELSE "Local Server"

\* initStorage: the provider SCSStorage.setProvider is called with.
initStorage(stored, created) ==
    LET choice == IF Truthy(stored.scs_provider) THEN stored.scs_provider.v ELSE "managed"
    IN IF choice = "supabase"
       THEN IF SupabaseInit(stored.scs_supabase_url, stored.scs_supabase_key, created)
            THEN "Supabase Cloud" ELSE "Local Server"
       ELSE IF choice = "managed"
       THEN IF SupabaseInit(Text("MANAGED_CONFIG.url"), Text("MANAGED_CONFIG.key"), created)
            THEN "Supabase Cloud" ELSE "Local Server"
       ELSE "Local Server"

AppInit ==
    /\ currentEmail = Null
    /\ currentPasswordHash = Null
    /\ currentSalt = Null
    /\ isUploading = FALSE
    /\ downloadTarget = Null
    /\ deleteTarget = Null
    /\ downloadModal = FALSE
    /\ deleteModal = FALSE
    /\ sessionStorage = EmptySession
    /\ screen = "auth-screen"
    /\ auth = [i \in 1..MaxAuths |-> Idle]
    /\ up = [i \in 1..MaxUploads |-> Idle]
    /\ down = [i \in 1..MaxDownloads |-> Idle]
    /\ del = [i \in 1..MaxDeletes |-> Idle]
    /\ rng = 0
    /\ users = {}
    /\ bucket = {}
    /\ table = {}
    /\ localStore = {}
    /\ apiReceived = {}
    /\ cloudReceived = {}
    /\ reloads = 0
    /\ tampers = 0
    /\ settings = 0

Init ==
    /\ AppInit
    /\ localStorage = NoSettings
    /\ \E created \in BOOLEAN : provider = initStorage(localStorage, created)
    /\ rt = Idle
    /\ dashboard = Untraced

(***************************************************************************)
(* Session management                                                      *)
(***************************************************************************)
\* saveSession without its sessionStorage.setItem calls.
saveSession_MemoryOnly(email, passwordHash, salt) ==
    /\ currentEmail' = email
    /\ currentPasswordHash' = passwordHash
    /\ currentSalt' = salt
    /\ UNCHANGED sessionStorage

saveSession(email, passwordHash, salt) ==
    /\ currentEmail' = email
    /\ currentPasswordHash' = passwordHash
    /\ currentSalt' = salt
    /\ sessionStorage' = [scs_email |-> email, scs_hash |-> passwordHash, scs_salt |-> salt]

clearSession ==
    /\ currentEmail' = Null
    /\ currentPasswordHash' = Null
    /\ currentSalt' = Null
    /\ sessionStorage' = EmptySession

(***************************************************************************)
(* API client: request bodies                                              *)
(***************************************************************************)
RegisterBody(email, passwordHash, salt) ==
    [op |-> "register", email |-> email, password_hash |-> passwordHash, salt |-> salt]

LoginBody(email, passwordHash) ==
    [op |-> "login", email |-> email, password_hash |-> passwordHash]

UploadForm(email, passwordHash, encryptedBlob, metadata, filename) ==
    [op |-> "upload", email |-> email, password_hash |-> passwordHash,
     metadata |-> metadata, file |-> encryptedBlob, filename |-> filename]

DownloadQuery(op, email, filename) == [op |-> op, email |-> email, filename |-> filename]

DeleteBody(email, filename, passwordHash) ==
    [op |-> "delete", email |-> email, filename |-> filename, password_hash |-> passwordHash]

(***************************************************************************)
(* Auth backend (not part of the client sources): an account is the email  *)
(* with the token and salt it registered; login compares the token.        *)
(***************************************************************************)
Registered(email) == \E u \in users : u.email = email

Account(email) == CHOOSE u \in users : u.email = email

Authenticates(email, passwordHash) ==
    /\ ~IsNull(email)
    /\ Registered(email)
    /\ Account(email).password_hash = passwordHash

(***************************************************************************)
(* Register and login forms                                                *)
(***************************************************************************)
InFlight(kind) == \E i \in DOMAIN auth : auth[i].pc = "requesting" /\ auth[i].kind = kind

\* What the register handler sends as the credential.
RegisterCredential_Raw(password, authSalt) == password

RegisterCredential(password, authSalt) == hashPassword(password, authSalt)

RegisterSubmit(input, password, confirm) ==
    /\ MayStart
    /\ screen = "auth-screen"
    /\ ~InFlight("register")
    /\ LET email == Str(Trim(input.v))
           passwordHash == RegisterCredential(password, AuthSalt(email))
       IN /\ validateEmail(email)
          /\ password.length >= 8
          /\ password = confirm
          /\ \E i \in FreeSlot(auth), derived \in BOOLEAN :
                /\ auth' = [auth EXCEPT ![i] =
                               [pc |-> "requesting", kind |-> "register", email |-> email,
                                passwordHash |-> passwordHash, salt |-> AuthSaltHex(email),
                                derived |-> derived]]
                /\ apiReceived' = IF derived
                                  THEN apiReceived \cup
                                          {RegisterBody(email, passwordHash, AuthSaltHex(email))}
                                  ELSE apiReceived
    /\ UNCHANGED <<sessionVars, appVars, up, down, del, rng, backendVars,
                   cloudReceived, reloads, tampers,
                   localStorage, settings, rt, dashboard>>

LoginSubmit(input, password) ==
    /\ MayStart
    /\ screen = "auth-screen"
    /\ ~InFlight("login")
    /\ LET email == Str(Trim(input.v))
           passwordHash == hashPassword(password, AuthSalt(email))
       IN /\ validateEmail(email)
          /\ password.length > 0
          /\ \E i \in FreeSlot(auth), derived \in BOOLEAN :
                /\ auth' = [auth EXCEPT ![i] =
                               [pc |-> "requesting", kind |-> "login", email |-> email,
                                passwordHash |-> passwordHash, salt |-> Null,
                                derived |-> derived]]
                /\ apiReceived' = IF derived
                                  THEN apiReceived \cup {LoginBody(email, passwordHash)}
                                  ELSE apiReceived
    /\ UNCHANGED <<sessionVars, appVars, up, down, del, rng, backendVars,
                   cloudReceived, reloads, tampers,
                   localStorage, settings, rt, dashboard>>

\* enterDashboard shows the dashboard and calls loadFiles().
enterDashboard(d, via) ==
    /\ screen' = "dashboard-screen"
    /\ dashboard' = loadFiles(d, currentEmail', via)

\* The response of /api/register or /api/login arrives.
AuthSucceeds(i) ==
    /\ auth[i].pc = "requesting"
    /\ auth[i].derived
    /\ LET a == auth[i]
       IN \/ /\ a.kind = "register"
             /\ ~Registered(a.email)
             /\ users' = users \cup {[email |-> a.email, password_hash |-> a.passwordHash,
                                      salt |-> a.salt]}
             /\ saveSession(a.email, a.passwordHash, a.salt)
          \/ /\ a.kind = "login"
             /\ Authenticates(a.email, a.passwordHash)
             /\ users' = users
             /\ saveSession(a.email, a.passwordHash, Account(a.email).salt)
    /\ enterDashboard(dashboard, provider)
    /\ auth' = [auth EXCEPT ![i].pc = "done"]
    /\ UNCHANGED <<isUploading, downloadTarget, deleteTarget, downloadModal, deleteModal,
                   provider, up, down, del, rng,
                   bucket, table, localStore, wireVars, reloads, tampers,
                   localStorage, settings, rt>>

\* The catch block as it would be if it ended the session.
AuthCatch_EndsSession == clearSession /\ screen' = "auth-screen"

\* The catch block of the register and login handlers: a toast only.
AuthCatch == UNCHANGED <<sessionVars, screen>>

\* crypto.subtle.digest or hashPassword threw (derived = FALSE), or the
\* request failed or was refused: catch and finally.
AuthFails(i) ==
    /\ auth[i].pc = "requesting"
    /\ auth' = [auth EXCEPT ![i].pc = "failed"]
    /\ AuthCatch
    /\ UNCHANGED <<isUploading, downloadTarget, deleteTarget, downloadModal, deleteModal,
                   provider, up, down, del, rng, backendVars, wireVars,
                   reloads, tampers,
                   localStorage, settings, rt, dashboard>>

(***************************************************************************)
(* Logout and page load                                                    *)
(***************************************************************************)
Logout ==
    /\ screen = "dashboard-screen"
    /\ clearSession
    /\ screen' = "auth-screen"
    /\ UNCHANGED <<isUploading, downloadTarget, deleteTarget, downloadModal, deleteModal,
                   provider, taskVars, rng,
                   backendVars, wireVars, reloads, tampers,
                   localStorage, settings, rt, dashboard>>

Running(task) == task.pc \notin {"idle", "done", "failed", "busy", "too-large",
                                 "no-password", "no-target", "released", "aborted"}

Abort(tasks) == [i \in DOMAIN tasks |->
                    IF Running(tasks[i]) THEN [tasks[i] EXCEPT !.pc = "aborted"] ELSE tasks[i]]

SessionStored_Never == FALSE

\* restoreSession's test of the three stored items
SessionStored ==
    /\ Truthy(sessionStorage.scs_email)
    /\ Truthy(sessionStorage.scs_hash)
    /\ Truthy(sessionStorage.scs_salt)

\* The page's script state starts over: pending timers and responses are gone.
PageLoaded(d) == IF Traced(d) THEN FreshDashboard ELSE d

restoreSession ==
    IF SessionStored
    THEN /\ currentEmail' = sessionStorage.scs_email
         /\ currentPasswordHash' = sessionStorage.scs_hash
         /\ currentSalt' = sessionStorage.scs_salt
         /\ enterDashboard(PageLoaded(dashboard), provider')
    ELSE /\ currentEmail' = Null
         /\ currentPasswordHash' = Null
         /\ currentSalt' = Null
         /\ screen' = "auth-screen"
         /\ dashboard' = PageLoaded(dashboard)

\* The page is loaded again in the same tab: the script state starts over,
\* pending handlers are gone, sessionStorage is kept; DOMContentLoaded runs
\* initStorage and restoreSession.
Reload ==
    /\ MayStart
    /\ reloads < MaxReloads
    /\ reloads' = reloads + 1
    /\ isUploading' = FALSE
    /\ downloadTarget' = Null
    /\ deleteTarget' = Null
    /\ downloadModal' = FALSE
    /\ deleteModal' = FALSE
    /\ auth' = Abort(auth)
    /\ up' = Abort(up)
    /\ down' = Abort(down)
    /\ del' = Abort(del)
    /\ \E created \in BOOLEAN : provider' = initStorage(localStorage, created)
    /\ restoreSession
    /\ UNCHANGED <<sessionStorage, localStorage, rng, backendVars, wireVars, tampers,
                   settings, rt>>

\* save-settings-btn: the choice is stored and initStorage runs again.
SaveSettings(choice, url, key) ==
    /\ MayStart
    /\ settings < MaxSettings
    /\ settings' = settings + 1
    /\ localStorage' =
          IF choice = "supabase"
          THEN [scs_provider |-> Text(choice), scs_supabase_url |-> url,
                scs_supabase_key |-> key]
          ELSE [localStorage EXCEPT !.scs_provider = Text(choice)]
    /\ \E created \in BOOLEAN : provider' = initStorage(localStorage', created)
    /\ UNCHANGED <<sessionVars, isUploading, downloadTarget, deleteTarget, downloadModal,
                   deleteModal, screen, taskVars, rng, backendVars, wireVars, reloads,
                   tampers, rt>>
    /\ dashboard' = IF IsNull(currentEmail) THEN dashboard
                    ELSE loadFiles(dashboard, currentEmail, provider')

(***************************************************************************)
(* Upload                                                                  *)
(***************************************************************************)
\* The bucket path `${emailHash}/${filename}` and the key of a metadata row.
FilePath(email, filename) == <<hashEmail(email), filename>>
RowKey(email, filename) == <<email, filename>>

\* Local Server (not part of the client sources): a duplicate file name gets
\* a counter suffix, so a stored file is never replaced.
LocalStoredName(email, filename) ==
    Name(filename.base,
         CHOOSE n \in 0..Cardinality(localStore) :
            /\ ~Has(localStore, RowKey(email, Name(filename.base, n)))
            /\ \A m \in 0..(n - 1) : Has(localStore, RowKey(email, Name(filename.base, m))))

UploadRejected_Never(flag) == FALSE

\* handleFileUpload's first test
UploadRejected(flag) == flag

\* handleFileUpload without its finally block.
UploadFinally_Missing == UNCHANGED isUploading

\* handleFileUpload's finally block
UploadFinally == isUploading' = FALSE

\* The size check as it would be with >= for >.
TooLarge_Inclusive(file) == file.size >= MAX_UPLOAD_SIZE

\* handleFileUpload's file size check
TooLarge(file) == file.size > 50 * 1024 * 1024

handleFileUpload(file) ==
    \E i \in FreeSlot(up) :
        IF UploadRejected(isUploading)
        THEN /\ up' = [up EXCEPT ![i] = [pc |-> "busy"]]
             /\ UNCHANGED <<isUploading, dashboard>>
        ELSE IF TooLarge(file)
        THEN /\ up' = [up EXCEPT ![i] = [pc |-> "too-large", file |-> file]]
             /\ UNCHANGED <<isUploading, dashboard>>
        ELSE /\ isUploading' = TRUE
             /\ dashboard' = showUploadProgress(dashboard)
             /\ up' = [up EXCEPT ![i] = [pc |-> "reading", file |-> file]]

FileInputChange(file) ==
    /\ MayStart
    /\ screen = "dashboard-screen"
    /\ handleFileUpload(file)
    /\ UNCHANGED <<sessionVars, downloadTarget, deleteTarget, downloadModal, deleteModal,
                   screen, provider, auth, down, del, rng, backendVars, wireVars,
                   reloads, tampers,
                   localStorage, settings, rt>>

Drop(file) ==
    /\ MayStart
    /\ screen = "dashboard-screen"
    /\ ~isUploading
    /\ handleFileUpload(file)
    /\ UNCHANGED <<sessionVars, downloadTarget, deleteTarget, downloadModal, deleteModal,
                   screen, provider, auth, down, del, rng, backendVars, wireVars,
                   reloads, tampers,
                   localStorage, settings, rt>>

\* file.arrayBuffer() resolved: encryptFile is called with the session token
\* and draws its salt and iv.
UploadRead(i) ==
    /\ up[i].pc = "reading"
    /\ \E bs \in ByteSamples, bi \in ByteSamples :
          up' = [up EXCEPT ![i] =
                    [pc |-> "encrypting", file |-> up[i].file,
                     encrypted |-> encryptFile(up[i].file.data, currentPasswordHash,
                                               rng, bs, bi)]]
    /\ rng' = rng + 2
    /\ UNCHANGED <<sessionVars, appVars, auth, down, del, backendVars, wireVars,
                   reloads, tampers,
                   localStorage, settings, rt, dashboard>>

\* The metadata as it would be with iv and salt taken from each other's field.
Metadata_Swapped(file, encrypted) ==
    [original_name |-> file.name, original_size |-> file.size,
     iv |-> encrypted.salt, salt |-> encrypted.iv, file_hash |-> encrypted.fileHash]

Metadata(file, encrypted) ==
    [original_name |-> file.name, original_size |-> file.size,
     iv |-> encrypted.iv, salt |-> encrypted.salt, file_hash |-> encrypted.fileHash]

\* encryptFile resolved: the metadata is built and SCSStorage.saveFile called.
UploadEncrypted(i) ==
    /\ up[i].pc = "encrypting"
    /\ LET u == up[i]
           metadata == Metadata(u.file, u.encrypted)
           blob == u.encrypted.ciphertext
           call == [file |-> u.file, encrypted |-> u.encrypted, email |-> currentEmail,
                    passwordHash |-> currentPasswordHash, metadata |-> metadata]
       IN IF provider = "Local Server"
          THEN /\ up' = [up EXCEPT ![i] = [pc |-> "saving"] @@ call]
               /\ apiReceived' = apiReceived \cup
                     {UploadForm(currentEmail, currentPasswordHash, blob, metadata,
                                 u.file.name)}
               /\ UNCHANGED <<isUploading, cloudReceived, dashboard>>
          ELSE IF IsNull(currentEmail)
          THEN \* hashEmail(null) throws: catch and finally
               /\ up' = [up EXCEPT ![i] = [pc |-> "failed"] @@ call]
               /\ UploadFinally
               /\ dashboard' = resetUploadZone(dashboard)
               /\ UNCHANGED wireVars
          ELSE /\ up' = [up EXCEPT ![i] = [pc |-> "saving-blob"] @@ call]
               /\ cloudReceived' = cloudReceived \cup
                     {[op |-> "storage.upload", path |-> FilePath(currentEmail, u.file.name),
                       file |-> blob]}
               /\ UNCHANGED <<isUploading, apiReceived, dashboard>>
    /\ UNCHANGED <<sessionVars, downloadTarget, deleteTarget, downloadModal, deleteModal,
                   screen, provider, auth, down, del, rng, backendVars, reloads, tampers,
                   localStorage, settings, rt>>

\* Supabase stored the blob (upsert: true); the metadata row is sent next.
UploadBlobStored(i) ==
    /\ up[i].pc = "saving-blob"
    /\ LET u == up[i]
       IN /\ bucket' = Upsert(bucket, FilePath(u.email, u.file.name), u.encrypted.ciphertext)
          /\ cloudReceived' = cloudReceived \cup
                {[op |-> "upsert", email |-> u.email, filename |-> u.file.name,
                  metadata |-> u.metadata]}
    /\ up' = [up EXCEPT ![i].pc = "saving-meta"]
    /\ UNCHANGED <<sessionVars, appVars, auth, down, del, rng, users, table, localStore,
                   apiReceived, reloads, tampers,
                   localStorage, settings, rt, dashboard>>

\* Supabase stored the metadata row: saveFile returns, the upload is done.
UploadMetaStored(i) ==
    /\ up[i].pc = "saving-meta"
    /\ table' = Upsert(table, RowKey(up[i].email, up[i].file.name), up[i].metadata)
    /\ up' = [up EXCEPT ![i].pc = "done"]
    /\ UploadFinally
    /\ UNCHANGED <<sessionVars, downloadTarget, deleteTarget, downloadModal, deleteModal,
                   screen, provider, auth, down, del, rng, users, bucket, localStore,
                   wireVars, reloads, tampers,
                   localStorage, settings, rt>>
    /\ dashboard' = setTimeout(dashboard)

\* The Local Server accepted the upload and stored blob and metadata.
UploadLocalStored(i) ==
    /\ up[i].pc = "saving"
    /\ LET u == up[i]
       IN /\ Authenticates(u.email, u.passwordHash)
          /\ localStore' = Upsert(localStore,
                                  RowKey(u.email, LocalStoredName(u.email, u.file.name)),
                                  [blob |-> u.encrypted.ciphertext, metadata |-> u.metadata])
    /\ up' = [up EXCEPT ![i].pc = "done"]
    /\ UploadFinally
    /\ UNCHANGED <<sessionVars, downloadTarget, deleteTarget, downloadModal, deleteModal,
                   screen, provider, auth, down, del, rng, users, bucket, table,
                   wireVars, reloads, tampers,
                   localStorage, settings, rt>>
    /\ dashboard' = setTimeout(dashboard)

\* Reading, encrypting or a storage request failed: catch and finally.
UploadFails(i) ==
    /\ up[i].pc \in {"reading", "encrypting", "saving", "saving-blob", "saving-meta"}
    /\ up' = [up EXCEPT ![i].pc = "failed"]
    /\ UploadFinally
    /\ UNCHANGED <<sessionVars, downloadTarget, deleteTarget, downloadModal, deleteModal,
                   screen, provider, auth, down, del, rng, backendVars, wireVars,
                   reloads, tampers,
                   localStorage, settings, rt>>
    /\ dashboard' = resetUploadZone(dashboard)

(***************************************************************************)
(* Download                                                                *)
(***************************************************************************)
Target(filename) == [k |-> "target", filename |-> filename, originalName |-> filename]

\* Names of the file cards: listed earlier, or stored now.
CardNames == ListedNames \cup {e.key[2] : e \in table \cup localStore}

startDownloadFlow(filename) ==
    /\ screen = "dashboard-screen"
    /\ downloadTarget' = Target(filename)
    /\ downloadModal' = TRUE
    /\ UNCHANGED <<sessionVars, isUploading, deleteTarget, deleteModal, screen, provider,
                   taskVars, rng, backendVars, wireVars, reloads, tampers,
                   localStorage, settings, rt, dashboard>>

\* modal-close-btn, modal-done-btn, click on the overlay
CloseDownloadModal ==
    /\ downloadModal
    /\ downloadModal' = FALSE
    /\ UNCHANGED <<sessionVars, isUploading, downloadTarget, deleteTarget, deleteModal,
                   screen, provider, taskVars, rng, backendVars, wireVars, reloads,
                   tampers,
                   localStorage, settings, rt, dashboard>>

\* new Error('INTEGRITY_FAIL')
IntegrityFail == Error("Error", <<"INTEGRITY_FAIL">>)

\* null.toLowerCase() in hashEmail or performDecrypt
NullEmailError == Error("TypeError", <<"Cannot", "read", "properties", "of", "null">>)

\* The error a provider throws when a request fails or finds nothing.
StorageError == Error("Error", <<"Download", "failed">>)

\* String.prototype.includes on the words of a message
Includes(message, word) == \E i \in 1..Len(message) : message[i] = word

ErrorTitle_Generic(err) == "Download Failed"

\* performDecrypt's catch: the title of the error state.
ErrorTitle(err) ==
    IF err.message = <<"INTEGRITY_FAIL">> THEN "Integrity Check Failed"
    ELSE IF err.name = "OperationError" \/ Includes(err.message, "decrypt")
    THEN "Decryption Failed"
    ELSE "Download Failed"

Failure(task, title) ==
    [pc |-> "failed", title |-> title, saved |-> Null, password |-> task.password]

\* performDecrypt up to its first await: SCSStorage.getMetadata is called.
performDecrypt(password) ==
    /\ MayStart
    /\ downloadModal
    /\ password.length > 0
    /\ \E i \in FreeSlot(down) :
          down' = [down EXCEPT ![i] =
                      [pc |-> "fetch-meta", password |-> password, email |-> currentEmail,
                       filename |-> downloadTarget.filename, via |-> provider]]
    /\ IF provider = "Local Server"
       THEN /\ apiReceived' = apiReceived \cup
                  {DownloadQuery("download", currentEmail, downloadTarget.filename)}
            /\ UNCHANGED cloudReceived
       ELSE /\ cloudReceived' = cloudReceived \cup
                  {[op |-> "select", email |-> currentEmail,
                    filename |-> downloadTarget.filename]}
            /\ UNCHANGED apiReceived
    /\ UNCHANGED <<sessionVars, appVars, auth, up, del, rng, backendVars, reloads,
                   tampers,
                   localStorage, settings, rt, dashboard>>

StoredMetadata(via, email, filename) ==
    IF via = "Local Server"
    THEN Get(localStore, RowKey(email, filename)).metadata
    ELSE Get(table, RowKey(email, filename))

HasMetadata(via, email, filename) ==
    /\ ~IsNull(email)
    /\ IF via = "Local Server" THEN Has(localStore, RowKey(email, filename))
       ELSE Has(table, RowKey(email, filename))

StoredBlob(via, email, filename) ==
    IF via = "Local Server"
    THEN Get(localStore, RowKey(email, filename)).blob
    ELSE Get(bucket, FilePath(email, filename))

HasBlob(via, email, filename) ==
    /\ ~IsNull(email)
    /\ IF via = "Local Server" THEN Has(localStore, RowKey(email, filename))
       ELSE Has(bucket, FilePath(email, filename))

\* getMetadata resolved: SCSStorage.getFileBlob is called with the session
\* email and the dialog's file as they are now.
DownloadMetadata(i) ==
    /\ down[i].pc = "fetch-meta"
    /\ HasMetadata(down[i].via, down[i].email, down[i].filename)
    /\ LET d == down[i]
           metadata == StoredMetadata(d.via, d.email, d.filename)
           next == [pc |-> "fetch-blob", password |-> d.password, email |-> currentEmail,
                    filename |-> downloadTarget.filename, via |-> provider,
                    metadata |-> metadata]
       IN IF provider = "Local Server"
          THEN /\ down' = [down EXCEPT ![i] = next]
               /\ apiReceived' = apiReceived \cup
                     {DownloadQuery("download/blob", currentEmail, downloadTarget.filename)}
               /\ UNCHANGED cloudReceived
          ELSE IF IsNull(currentEmail)
          THEN /\ down' = [down EXCEPT ![i] = Failure(d, ErrorTitle(NullEmailError))]
               /\ UNCHANGED wireVars
          ELSE /\ down' = [down EXCEPT ![i] = next]
               /\ cloudReceived' = cloudReceived \cup
                     {[op |-> "storage.download",
                       path |-> FilePath(currentEmail, downloadTarget.filename)]}
               /\ UNCHANGED apiReceived
    /\ UNCHANGED <<sessionVars, appVars, auth, up, del, rng, backendVars, reloads,
                   tampers,
                   localStorage, settings, rt, dashboard>>

EnteredHash_OfSession(password, email) == currentPasswordHash

\* The token performDecrypt derives from the entered password and the session
\* email.
EnteredHash(password, email) == hashPassword(password, AuthSalt(email))

\* getFileBlob resolved: the token is derived from the entered password and
\* the session email, and decryptFile is called.
DownloadBlob(i) ==
    /\ down[i].pc = "fetch-blob"
    /\ HasBlob(down[i].via, down[i].email, down[i].filename)
    /\ LET d == down[i]
           ciphertext == StoredBlob(d.via, d.email, d.filename)
       IN down' = [down EXCEPT ![i] =
                      IF IsNull(currentEmail) THEN Failure(d, ErrorTitle(NullEmailError))
                      ELSE [pc |-> "decrypting", password |-> d.password,
                            metadata |-> d.metadata, ciphertext |-> ciphertext,
                            enteredHash |-> EnteredHash(d.password, currentEmail)]]
    /\ UNCHANGED <<sessionVars, appVars, auth, up, del, rng, backendVars, wireVars,
                   reloads, tampers,
                   localStorage, settings, rt, dashboard>>

\* A storage request of the download failed (no such file, or the request).
DownloadFetchFails(i) ==
    /\ down[i].pc \in {"fetch-meta", "fetch-blob"}
    /\ down' = [down EXCEPT ![i] = Failure(down[i], ErrorTitle(StorageError))]
    /\ UNCHANGED <<sessionVars, appVars, auth, up, del, rng, backendVars, wireVars,
                   reloads, tampers,
                   localStorage, settings, rt, dashboard>>

\* decryptFile settled: the AES-GCM tag was checked.
DownloadDecrypt(i) ==
    /\ down[i].pc = "decrypting"
    /\ LET d == down[i]
           decrypted == decryptFile(d.ciphertext, d.metadata.iv, d.metadata.salt,
                                    d.enteredHash)
       IN down' = [down EXCEPT ![i] =
                      IF decrypted = OperationError THEN Failure(d, ErrorTitle(decrypted))
                      ELSE [pc |-> "verifying", password |-> d.password,
                            metadata |-> d.metadata,
                            ciphertext |-> d.ciphertext, enteredHash |-> d.enteredHash,
                            decrypted |-> decrypted]]
    /\ UNCHANGED <<sessionVars, appVars, auth, up, del, rng, backendVars, wireVars,
                   reloads, tampers,
                   localStorage, settings, rt, dashboard>>

IntegrityOk_Skipped(computedHash, storedHash) == TRUE

\* computedHash !== metadata.file_hash throws INTEGRITY_FAIL
IntegrityOk(computedHash, storedHash) == computedHash = storedHash

\* hashFile resolved: the digest is compared with the stored one.
DownloadVerify(i) ==
    /\ down[i].pc = "verifying"
    /\ LET d == down[i]
           computedHash == hashFile(d.decrypted)
       IN down' = [down EXCEPT ![i] =
                      IF ~IntegrityOk(computedHash, d.metadata.file_hash)
                      THEN Failure(d, ErrorTitle(IntegrityFail))
                      ELSE [d EXCEPT !.pc = "pause"]]
    /\ UNCHANGED <<sessionVars, appVars, auth, up, del, rng, backendVars, wireVars,
                   reloads, tampers,
                   localStorage, settings, rt, dashboard>>

\* After the 500 ms pause the plaintext is handed to the browser as a download.
DownloadRelease(i) ==
    /\ down[i].pc = "pause"
    /\ LET d == down[i]
       IN down' = [down EXCEPT ![i] =
                      [pc |-> "released", password |-> d.password,
                       metadata |-> d.metadata,
                       ciphertext |-> d.ciphertext, enteredHash |-> d.enteredHash,
                       decrypted |-> d.decrypted,
                       saved |-> [name |-> d.metadata.original_name,
                                  content |-> d.decrypted]]]
    /\ UNCHANGED <<sessionVars, appVars, auth, up, del, rng, backendVars, wireVars,
                   reloads, tampers,
                   localStorage, settings, rt, dashboard>>

(***************************************************************************)
(* Delete                                                                  *)
(***************************************************************************)
confirmDelete(filename) ==
    /\ screen = "dashboard-screen"
    /\ deleteTarget' = Target(filename)
    /\ deleteModal' = TRUE
    /\ UNCHANGED <<sessionVars, isUploading, downloadTarget, downloadModal, screen,
                   provider, taskVars, rng, backendVars, wireVars, reloads, tampers,
                   localStorage, settings, rt, dashboard>>

\* delete-cancel-btn, click on the overlay
CancelDelete ==
    /\ deleteModal
    /\ deleteModal' = FALSE
    /\ deleteTarget' = Null
    /\ UNCHANGED <<sessionVars, isUploading, downloadTarget, downloadModal, screen,
                   provider, taskVars, rng, backendVars, wireVars, reloads, tampers,
                   localStorage, settings, rt, dashboard>>

\* performDelete up to its first await: SCSStorage.deleteFile is called.
performDelete ==
    /\ MayStart
    /\ deleteModal
    /\ ~IsNull(deleteTarget)
    /\ \E i \in FreeSlot(del) :
          LET call == [email |-> currentEmail, filename |-> deleteTarget.filename,
                       passwordHash |-> currentPasswordHash]
          IN IF provider = "Local Server"
             THEN /\ del' = [del EXCEPT ![i] = [pc |-> "deleting"] @@ call]
                  /\ apiReceived' = apiReceived \cup
                        {DeleteBody(currentEmail, deleteTarget.filename, currentPasswordHash)}
                  /\ UNCHANGED <<deleteTarget, cloudReceived>>
             ELSE IF IsNull(currentEmail)
             THEN \* hashEmail(null) throws: catch and finally
                  /\ del' = [del EXCEPT ![i] = [pc |-> "failed"] @@ call]
                  /\ deleteTarget' = Null
                  /\ UNCHANGED wireVars
             ELSE /\ del' = [del EXCEPT ![i] = [pc |-> "removing-blob"] @@ call]
                  /\ cloudReceived' = cloudReceived \cup
                        {[op |-> "storage.remove",
                          path |-> FilePath(currentEmail, deleteTarget.filename)]}
                  /\ UNCHANGED <<deleteTarget, apiReceived>>
    /\ UNCHANGED <<sessionVars, isUploading, downloadTarget, downloadModal, deleteModal,
                   screen, provider, auth, up, down, rng, backendVars, reloads, tampers,
                   localStorage, settings, rt, dashboard>>

\* Supabase removed the blob; the metadata row is deleted next.
DeleteBlobRemoved(i) ==
    /\ del[i].pc = "removing-blob"
    /\ bucket' = Remove(bucket, FilePath(del[i].email, del[i].filename))
    /\ cloudReceived' = cloudReceived \cup
          {[op |-> "delete", email |-> del[i].email, filename |-> del[i].filename]}
    /\ del' = [del EXCEPT ![i].pc = "deleting-row"]
    /\ UNCHANGED <<sessionVars, appVars, auth, up, down, rng, users, table, localStore,
                   apiReceived, reloads, tampers,
                   localStorage, settings, rt, dashboard>>

\* deleteFile returned: the toast reads deleteTarget.originalName, which throws
\* when the dialog was cancelled meanwhile; finally clears deleteTarget.
DeleteReturned(i) ==
    /\ del' = [del EXCEPT ![i] = [pc |-> IF IsNull(deleteTarget) THEN "failed" ELSE "done",
                                  returned |-> TRUE] @@ del[i]]
    /\ deleteModal' = IF IsNull(deleteTarget) THEN deleteModal ELSE FALSE
    /\ deleteTarget' = Null
    /\ dashboard' = IF IsNull(deleteTarget) THEN dashboard
                    ELSE loadFiles(dashboard, currentEmail, provider)

DeleteRowDeleted(i) ==
    /\ del[i].pc = "deleting-row"
    /\ table' = Remove(table, RowKey(del[i].email, del[i].filename))
    /\ DeleteReturned(i)
    /\ UNCHANGED <<sessionVars, isUploading, downloadTarget, downloadModal, screen,
                   provider, auth, up, down, rng, users, bucket, localStore, wireVars,
                   reloads, tampers,
                   localStorage, settings, rt>>

\* The Local Server deleted blob and metadata of the file.
DeleteLocalDone(i) ==
    /\ del[i].pc = "deleting"
    /\ Authenticates(del[i].email, del[i].passwordHash)
    /\ Has(localStore, RowKey(del[i].email, del[i].filename))
    /\ localStore' = Remove(localStore, RowKey(del[i].email, del[i].filename))
    /\ DeleteReturned(i)
    /\ UNCHANGED <<sessionVars, isUploading, downloadTarget, downloadModal, screen,
                   provider, auth, up, down, rng, users, bucket, table, wireVars,
                   reloads, tampers,
                   localStorage, settings, rt>>

\* A storage request of the delete failed: catch and finally.
DeleteFails(i) ==
    /\ del[i].pc \in {"deleting", "removing-blob", "deleting-row"}
    /\ del' = [del EXCEPT ![i].pc = "failed"]
    /\ deleteTarget' = Null
    /\ UNCHANGED <<sessionVars, isUploading, downloadTarget, downloadModal, deleteModal,
                   screen, provider, auth, up, down, rng, backendVars, wireVars,
                   reloads, tampers,
                   localStorage, settings, rt, dashboard>>

(***************************************************************************)
(* Storage outside the client's control: a stored blob or a stored digest  *)
(* is altered (README, threat model: file tampering).                      *)
(***************************************************************************)
Corrupt(blob) == [blob EXCEPT !.intact = FALSE]

Forged(metadata) == [metadata EXCEPT !.file_hash = hashFile(Data("forged"))]

TamperCiphertext ==
    /\ MayStart
    /\ tampers < MaxTampers
    /\ tampers' = tampers + 1
    /\ \/ /\ \E e \in bucket : bucket' = Upsert(bucket, e.key, Corrupt(e.val))
          /\ UNCHANGED localStore
       \/ /\ \E e \in localStore :
                localStore' = Upsert(localStore, e.key, [e.val EXCEPT !.blob = Corrupt(@)])
          /\ UNCHANGED bucket
    /\ UNCHANGED <<sessionVars, appVars, taskVars, rng, users, table, wireVars, reloads,
                   localStorage, settings, rt, dashboard>>

TamperFileHash ==
    /\ MayStart
    /\ tampers < MaxTampers
    /\ tampers' = tampers + 1
    /\ \/ /\ \E e \in table : table' = Upsert(table, e.key, Forged(e.val))
          /\ UNCHANGED localStore
       \/ /\ \E e \in localStore :
                localStore' = Upsert(localStore, e.key, [e.val EXCEPT !.metadata = Forged(@)])
          /\ UNCHANGED table
    /\ UNCHANGED <<sessionVars, appVars, taskVars, rng, users, bucket, wireVars, reloads,
                   localStorage, settings, rt, dashboard>>

\* Passwords under which a substituted envelope may be encrypted: the
\* authentication tokens of the passwords that can be typed.
SubstitutePasswords == {hashPassword(p, AuthSalt(e)) : p \in Passwords, e \in Emails}

\* A validly encrypted envelope of another plaintext, made after every
\* encryption of the page.
Substitute(password) ==
    encryptFile(Data("substituted"), password, 2 * MaxUploads, 171, 171)

Substituted(metadata, envelope) ==
    [metadata EXCEPT !.iv = envelope.iv, !.salt = envelope.salt]

\* The stored ciphertext, iv and salt of a file are replaced by those of
\* another envelope; the stored file_hash is kept.
TamperEnvelope(password) ==
    /\ MayStart
    /\ tampers < MaxTampers
    /\ tampers' = tampers + 1
    /\ LET envelope == Substitute(password)
       IN \/ /\ \E e \in table :
                   /\ Has(bucket, FilePath(e.key[1], e.key[2]))
                   /\ bucket' = Upsert(bucket, FilePath(e.key[1], e.key[2]),
                                       envelope.ciphertext)
                   /\ table' = Upsert(table, e.key, Substituted(e.val, envelope))
             /\ UNCHANGED localStore
          \/ /\ \E e \in localStore :
                   localStore' = Upsert(localStore, e.key,
                                        [blob |-> envelope.ciphertext,
                                         metadata |-> Substituted(e.val.metadata, envelope)])
             /\ UNCHANGED <<bucket, table>>
    /\ UNCHANGED <<sessionVars, appVars, taskVars, rng, users, wireVars, reloads,
                   localStorage, settings, rt, dashboard>>

(***************************************************************************)
(* Specification of the application                                        *)
(***************************************************************************)
Next ==
    \/ \E e \in Emails, p \in AccountPasswords, c \in Passwords : RegisterSubmit(e, p, c)
    \/ \E e \in Emails, p \in Passwords : LoginSubmit(e, p)
    \/ \E i \in 1..MaxAuths : AuthSucceeds(i)
    \/ \E i \in 1..MaxAuths : AuthFails(i)
    \/ Logout
    \/ Reload
    \/ \E c \in SettingChoices, url \in SupabaseUrls, key \in SupabaseKeys :
          SaveSettings(c, url, key)
    \/ \E f \in Files : FileInputChange(f)
    \/ \E f \in Files : Drop(f)
    \/ \E i \in 1..MaxUploads : UploadRead(i)
    \/ \E i \in 1..MaxUploads : UploadEncrypted(i)
    \/ \E i \in 1..MaxUploads : UploadBlobStored(i)
    \/ \E i \in 1..MaxUploads : UploadMetaStored(i)
    \/ \E i \in 1..MaxUploads : UploadLocalStored(i)
    \/ \E i \in 1..MaxUploads : UploadFails(i)
    \/ \E n \in CardNames : startDownloadFlow(n)
    \/ CloseDownloadModal
    \/ \E p \in Passwords : performDecrypt(p)
    \/ \E i \in 1..MaxDownloads : DownloadMetadata(i)
    \/ \E i \in 1..MaxDownloads : DownloadBlob(i)
    \/ \E i \in 1..MaxDownloads : DownloadFetchFails(i)
    \/ \E i \in 1..MaxDownloads : DownloadDecrypt(i)
    \/ \E i \in 1..MaxDownloads : DownloadVerify(i)
    \/ \E i \in 1..MaxDownloads : DownloadRelease(i)
    \/ \E n \in CardNames : confirmDelete(n)
    \/ CancelDelete
    \/ performDelete
    \/ \E i \in 1..MaxDeletes : DeleteBlobRemoved(i)
    \/ \E i \in 1..MaxDeletes : DeleteRowDeleted(i)
    \/ \E i \in 1..MaxDeletes : DeleteLocalDone(i)
    \/ \E i \in 1..MaxDeletes : DeleteFails(i)
    \/ TamperCiphertext
    \/ TamperFileHash
    \/ \E p \in SubstitutePasswords : TamperEnvelope(p)

Spec == Init /\ [][Next]_vars

\* The promise an upload awaits (file.arrayBuffer, encryptFile, saveFile's
\* requests) is settled, one way or the other.
UploadSettles(i) ==
    \/ UploadRead(i)
    \/ UploadEncrypted(i)
    \/ UploadBlobStored(i)
    \/ UploadMetaStored(i)
    \/ UploadLocalStored(i)
    \/ UploadFails(i)

\* The steps that read or write what an upload reads or writes: the session,
\* the provider, the accounts and isUploading.
NextUpload ==
    \/ \E e \in Emails, p \in AccountPasswords, c \in Passwords : RegisterSubmit(e, p, c)
    \/ \E e \in Emails, p \in Passwords : LoginSubmit(e, p)
    \/ \E i \in 1..MaxAuths : AuthSucceeds(i)
    \/ \E i \in 1..MaxAuths : AuthFails(i)
    \/ Logout
    \/ Reload
    \/ \E c \in SettingChoices, url \in SupabaseUrls, key \in SupabaseKeys :
          SaveSettings(c, url, key)
    \/ \E f \in Files : FileInputChange(f)
    \/ \E f \in Files : Drop(f)
    \/ \E i \in 1..MaxUploads : UploadSettles(i)

\* encryptFile or a request of saveFile is answered, or an awaited promise
\* is rejected.
UploadResolves(i) ==
    \/ UploadEncrypted(i)
    \/ UploadBlobStored(i)
    \/ UploadMetaStored(i)
    \/ UploadLocalStored(i)
    \/ UploadFails(i)

\* WF_vars(UploadRead(i)), with ENABLED <<UploadRead(i)>>_vars written as the
\* state predicate it is equal to.
ReadResolves(i) == []<>(up[i].pc # "reading") \/ []<><<UploadRead(i)>>_vars

\* Sign-in, settings and uploads, with every awaited promise of an upload
\* settling in the end.
SpecLive ==
    /\ Init /\ [][NextUpload]_vars
    /\ \A i \in 1..MaxUploads : WF_vars(UploadResolves(i)) /\ ReadResolves(i)

(***************************************************************************)
(* File list and upload zone of the dashboard                              *)
(***************************************************************************)
\* The accounts of two users.
DashboardEmails == Emails \cup {Str(<<"v", "@", "x", ".", "i", "o">>)}

\* The files the storage holds for the account: the rows with
\* .eq('email', email), the Local Server's answer to /files?email=.
FilesOf(via, email) ==
    LET store == IF via = "Supabase Cloud" THEN table ELSE localStore
    IN {e.key : e \in {x \in store : x.key[1] = email}}

\* The 1500 ms timer of a successful upload fires: resetUploadZone, then
\* loadFiles.
TimerFires ==
    /\ Traced(dashboard)
    /\ dashboard.timers > 0
    /\ dashboard' = loadFiles(resetUploadZone([dashboard EXCEPT !.timers = @ - 1]),
                              currentEmail, provider)
    /\ UNCHANGED <<sessionVars, appVars, taskVars, rng, backendVars, wireVars,
                   localStorage, countVars, rt>>

\* Click on the refresh button.
Refresh ==
    /\ Traced(dashboard)
    /\ screen = "dashboard-screen"
    /\ Len(dashboard.lists) < MaxLists
    /\ dashboard' = loadFiles(dashboard, currentEmail, provider)
    /\ UNCHANGED <<sessionVars, appVars, taskVars, rng, backendVars, wireVars,
                   localStorage, countVars, rt>>

\* The storage answers a listFiles request with the files it holds now.
ListServed(i) ==
    /\ Traced(dashboard)
    /\ i \in DOMAIN dashboard.lists
    /\ dashboard.lists[i].pc = "requesting"
    /\ dashboard' = [dashboard EXCEPT !.lists[i] =
                        [pc |-> "served", email |-> @.email, via |-> @.via,
                         data |-> FilesOf(@.via, @.email)]]
    /\ UNCHANGED <<sessionVars, appVars, taskVars, rng, backendVars, wireVars,
                   localStorage, countVars, rt>>

\* The loadFiles call i is over.
Settled(d, i, outcome) ==
    [d EXCEPT !.lists = SubSeq(@, 1, i - 1) \o SubSeq(@, i + 1, Len(@)),
              !.latest = IF i = Len(d.lists) /\ @.pc = "requesting" THEN outcome ELSE @]

\* The answer arrives: cachedFiles = data || [].
ListReturns(i) ==
    /\ Traced(dashboard)
    /\ i \in DOMAIN dashboard.lists
    /\ dashboard.lists[i].pc = "served"
    /\ LET data == dashboard.lists[i].data
       IN dashboard' = [Settled(dashboard, i, [pc |-> "done", data |-> data])
                           EXCEPT !.cachedFiles = data]
    /\ UNCHANGED <<sessionVars, appVars, taskVars, rng, backendVars, wireVars,
                   localStorage, countVars, rt>>

\* listFiles throws: loadFiles shows a toast and keeps cachedFiles.
ListFails(i) ==
    /\ Traced(dashboard)
    /\ i \in DOMAIN dashboard.lists
    /\ dashboard.lists[i].pc = "requesting"
    /\ dashboard' = Settled(dashboard, i, [pc |-> "failed"])
    /\ UNCHANGED <<sessionVars, appVars, taskVars, rng, backendVars, wireVars,
                   localStorage, countVars, rt>>

InitUI ==
    /\ AppInit
    /\ localStorage = NoSettings
    /\ provider = initStorage(localStorage, FALSE)
    /\ rt = Idle
    /\ dashboard = FreshDashboard

\* Sign-in of two users, uploads to the Local Server, and the dashboard's
\* file list.
NextUI ==
    \/ \E e \in DashboardEmails, p \in AccountPasswords : RegisterSubmit(e, p, p)
    \/ \E e \in DashboardEmails, p \in AccountPasswords : LoginSubmit(e, p)
    \/ \E i \in 1..MaxAuths : AuthSucceeds(i)
    \/ \E i \in 1..MaxAuths : AuthFails(i)
    \/ Logout
    \/ \E f \in Files : FileInputChange(f)
    \/ \E i \in 1..MaxUploads : UploadRead(i)
    \/ \E i \in 1..MaxUploads : UploadEncrypted(i)
    \/ \E i \in 1..MaxUploads : UploadLocalStored(i)
    \/ \E i \in 1..MaxUploads : UploadFails(i)
    \/ TimerFires
    \/ Refresh
    \/ \E i \in 1..MaxLists + MaxOperations : ListServed(i)
    \/ \E i \in 1..MaxLists + MaxOperations : ListReturns(i)
    \/ \E i \in 1..MaxLists + MaxOperations : ListFails(i)

SpecUI == InitUI /\ [][NextUI]_vars

(***************************************************************************)
(* Upload exclusivity                                                      *)
(***************************************************************************)
\* An upload between setting and clearing the in-progress flag.
UploadInFlight(u) == u.pc \in {"reading", "encrypting", "saving", "saving-blob", "saving-meta"}

UploadsInFlight == {i \in DOMAIN up : UploadInFlight(up[i])}

\* A handleFileUpload call arrives in this step.
UploadArrives == \E i \in DOMAIN up : up[i].pc = "idle" /\ up'[i].pc # "idle"

AtMostOneUpload ==
    /\ Cardinality(UploadsInFlight) <= 1
    /\ UploadsInFlight # {} => isUploading

RejectedWhileInFlight ==
    (UploadArrives /\ UploadsInFlight # {}) =>
        /\ \E i \in DOMAIN up : up[i].pc = "idle" /\ up'[i] = [pc |-> "busy"]
        /\ \A i \in UploadsInFlight : up'[i] = up[i]
        /\ UNCHANGED <<isUploading, rng, backendVars, wireVars>>

\* C1: at most one upload is in flight at any time; a handleFileUpload call
\* that arrives while another upload is between setting and clearing the
\* in-progress flag is rejected and reads, encrypts and saves nothing.
C1_OneUploadInFlight == []AtMostOneUpload /\ [][RejectedWhileInFlight]_vars

\* An upload is in flight and a second call was rejected.
C1_Witness ==
    \E i, j \in DOMAIN up : UploadInFlight(up[i]) /\ "encrypted" \in DOMAIN up[i]
                              /\ up[j].pc = "busy"

(***************************************************************************)
(* Logout while operations are pending                                     *)
(***************************************************************************)
Pending ==
    \/ \E i \in DOMAIN up : Running(up[i])
    \/ \E i \in DOMAIN down : Running(down[i])
    \/ \E i \in DOMAIN del : Running(del[i])

SessionCleared ==
    /\ ~IsNull(currentEmail) \/ ~IsNull(currentPasswordHash)
    /\ IsNull(currentEmail') /\ IsNull(currentPasswordHash')

\* No upload encrypted with, or sent, a token or email read as null.
NoNullRead ==
    \A i \in DOMAIN up :
        /\ "encrypted" \in DOMAIN up[i] => ~IsNull(up[i].encrypted.ciphertext.key.password)
        /\ "email" \in DOMAIN up[i] => ~IsNull(up[i].email) /\ ~IsNull(up[i].passwordHash)

\* C2: the in-memory token and email are cleared only when no upload, decrypt
\* or delete is pending, and no pending operation reads them as null.
C2_ClearedOnlyWhenIdle == []NoNullRead /\ [][SessionCleared => ~Pending]_vars

(***************************************************************************)
(* What the Local Server can derive from the requests it received          *)
(***************************************************************************)
ApiRequests(ops) == {m \in apiReceived : m.op \in ops}

\* Authentication tokens the server was sent.
ApiTokens == {m.password_hash : m \in ApiRequests({"register", "login", "upload", "delete"})}

\* Envelopes the server was sent: ciphertext with its public metadata.
ApiEnvelopes == {[ciphertext |-> m.file, iv |-> m.metadata.iv, salt |-> m.metadata.salt] :
                    m \in ApiRequests({"upload"})}

\* PBKDF2 is public: every received token with every received salt.
ApiDerivableKeys == {deriveKey(t, hexToBytes(e.salt)) : t \in ApiTokens, e \in ApiEnvelopes}

\* AES-GCM decryption is public: the server opens an envelope with a key it
\* can derive.
ApiOpens(e) == \E key \in ApiDerivableKeys : TagVerifies(key, hexToBytes(e.iv), e.ciphertext)

\* C3: from everything it receives the backend can derive no file's
\* encryption key and can decrypt no ciphertext, derivation being closed
\* under PBKDF2 with a known salt and AES-GCM decryption with a known key.
C3_BackendDerivesNoKey ==
    \A e \in ApiEnvelopes : e.ciphertext.key \notin ApiDerivableKeys /\ ~ApiOpens(e)

(***************************************************************************)
(* Secrets on the wire and in browser storage                              *)
(***************************************************************************)
\* A raw password, a derived AES key, a file plaintext.
Secret(x) == x.k \in {"password", "AES-key", "data"}

Credential(x) == x.k \in {"PBKDF2-bits", "null"}

ApiCarriesSecret(m) ==
    CASE m.op = "register" -> Secret(m.email) \/ ~Credential(m.password_hash) \/ Secret(m.salt)
      [] m.op = "login" -> Secret(m.email) \/ ~Credential(m.password_hash)
      [] m.op = "upload" ->
            \/ Secret(m.email) \/ ~Credential(m.password_hash) \/ Secret(m.filename)
            \/ m.file.k # "AES-GCM"
            \/ Secret(m.metadata.original_name) \/ m.metadata.file_hash.k # "SHA-256"
      [] m.op = "delete" -> Secret(m.email) \/ ~Credential(m.password_hash) \/ Secret(m.filename)
      [] OTHER -> Secret(m.email) \/ Secret(m.filename)

CloudCarriesSecret(m) ==
    CASE m.op = "storage.upload" ->
            Secret(m.path[1]) \/ Secret(m.path[2]) \/ m.file.k # "AES-GCM"
      [] m.op \in {"storage.download", "storage.remove"} ->
            Secret(m.path[1]) \/ Secret(m.path[2])
      [] m.op = "upsert" ->
            \/ Secret(m.email) \/ Secret(m.filename)
            \/ Secret(m.metadata.original_name) \/ m.metadata.file_hash.k # "SHA-256"
      [] OTHER -> Secret(m.email) \/ Secret(m.filename)

\* C4: the raw password, the derived AES key and the file plaintext appear in
\* no message to the transport or storage provider and in no value written
\* to sessionStorage or localStorage; credentials sent are PBKDF2 tokens,
\* files sent are AES-GCM ciphertexts.
C4_NoSecretLeaves ==
    /\ \A m \in apiReceived : ~ApiCarriesSecret(m)
    /\ \A m \in cloudReceived : ~CloudCarriesSecret(m)
    /\ \A f \in DOMAIN sessionStorage : ~Secret(sessionStorage[f])
    /\ \A f \in DOMAIN localStorage : ~Secret(localStorage[f])

\* A registration and an upload were sent, the session and a setting stored.
C4_Witness ==
    /\ \E m \in apiReceived : m.op = "register"
    /\ \E m \in apiReceived \cup cloudReceived : m.op \in {"upload", "storage.upload"}
    /\ SessionStored
    /\ Truthy(localStorage.scs_provider)

(***************************************************************************)
(* Order of the checks of a download                                       *)
(***************************************************************************)
\* The tag of the fetched ciphertext verifies under the key of this download.
TagChecked(d) ==
    TagVerifies(deriveKey(d.enteredHash, hexToBytes(d.metadata.salt)),
                hexToBytes(d.metadata.iv), d.ciphertext)

\* C5: in performDecrypt the tag check completes before the hash comparison
\* begins, and plaintext is released only when both succeeded; when either
\* fails no plaintext is released.
C5_TagThenHashThenRelease ==
    \A i \in DOMAIN down :
        LET d == down[i]
        IN /\ d.pc \in {"verifying", "pause", "released"} =>
                  TagChecked(d) /\ d.decrypted = d.ciphertext.data
           /\ d.pc \in {"pause", "released"} => hashFile(d.decrypted) = d.metadata.file_hash
           /\ d.pc = "released" => d.saved.content = d.decrypted
           /\ (d.pc # "released" /\ "saved" \in DOMAIN d) => IsNull(d.saved)

\* A download passed both checks and released the plaintext.
C5_Witness ==
    \E i \in DOMAIN down : down[i].pc = "released" /\ down[i].saved.content.k = "data"

(***************************************************************************)
(* Stored envelopes                                                        *)
(***************************************************************************)
\* No entry of the store changes its value in this step.
Kept(store, store2) == \A e \in store : \A f \in store2 : f.key = e.key => f.val = e.val

\* The step is taken by the application, not by a corruption of the storage.
ApplicationStep == tampers' = tampers

EnvelopeImmutable ==
    ApplicationStep =>
        /\ Kept(bucket, bucket')
        /\ Kept(table, table')
        /\ Kept(localStore, localStore')

\* A delete that returns successfully in this step leaves neither the blob
\* nor the metadata of its file in the storage it was sent to.
DeleteRemovesBoth ==
    \A i \in DOMAIN del :
        /\ (del[i].pc = "deleting" /\ del'[i].pc = "done") =>
               ~Has(localStore', RowKey(del[i].email, del[i].filename))
        /\ (del[i].pc = "deleting-row" /\ del'[i].pc = "done") =>
               /\ ~Has(bucket', FilePath(del[i].email, del[i].filename))
               /\ ~Has(table', RowKey(del[i].email, del[i].filename))

\* C6: a stored envelope is changed by no operation other than deleting its
\* file; a later upload under the same filename does not overwrite it in
\* place, and deleting the file removes both its ciphertext and its metadata.
C6_EnvelopeImmutable == [][EnvelopeImmutable /\ DeleteRemovesBoth]_vars

(***************************************************************************)
(* Failed uploads                                                          *)
(***************************************************************************)
Undamaged(blob) == [blob EXCEPT !.intact = TRUE]

\* The upload failed after encryption succeeded and SCSStorage.saveFile was
\* called.
StorageStepFailed(u) == u.pc = "failed" /\ "metadata" \in DOMAIN u /\ ~IsNull(u.email)

\* Something of the envelope of upload u is in storage.
Remains(u) ==
    \/ \E e \in bucket : Undamaged(e.val) = u.encrypted.ciphertext
    \/ \E e \in table : e.val.iv = u.metadata.iv /\ e.val.salt = u.metadata.salt
    \/ \E e \in localStore : Undamaged(e.val.blob) = u.encrypted.ciphertext

\* C7: when the storage step of an upload fails after encryption succeeded,
\* no ciphertext or metadata of the failed attempt remains in storage.
C7_FailedUploadLeavesNothing ==
    \A i \in DOMAIN up : StorageStepFailed(up[i]) => ~Remains(up[i])

(***************************************************************************)
(* What a download fetches                                                 *)
(***************************************************************************)
\* The metadata and the ciphertext were produced by one encryptFile call.
SameEnvelope(metadata, ciphertext) ==
    /\ hexToBytes(metadata.iv) = ciphertext.iv
    /\ hexToBytes(metadata.salt) = ciphertext.key.salt

\* C8: the metadata and the ciphertext a download fetched were stored
\* together by the same upload, whatever runs concurrently (in runs where
\* the storage was not tampered with).
C8_DownloadSeesOneEnvelope ==
    tampers = 0 =>
        \A i \in DOMAIN down :
            "ciphertext" \in DOMAIN down[i] =>
                SameEnvelope(down[i].metadata, down[i].ciphertext)

(***************************************************************************)
(* Session after a page reload                                             *)
(***************************************************************************)
Reloaded == reloads' = reloads + 1

NoSession(email, passwordHash, salt) == IsNull(email) /\ IsNull(passwordHash) /\ IsNull(salt)

\* C9 as stated: after a page reload there is no session and no
\* authenticated operation until the password is entered again.
C9_ReloadRequiresPassword ==
    [][Reloaded => /\ NoSession(currentEmail', currentPasswordHash', currentSalt')
                   /\ screen' = "auth-screen"]_vars

\* The three items are in sessionStorage.
StoredItems ==
    /\ ~IsNull(sessionStorage.scs_email)
    /\ ~IsNull(sessionStorage.scs_hash)
    /\ ~IsNull(sessionStorage.scs_salt)

\* A register or login with a password succeeded with the stored token.
StoredByPasswordEntry ==
    \E i \in DOMAIN auth :
        /\ auth[i].pc = "done"
        /\ auth[i].email = sessionStorage.scs_email
        /\ auth[i].passwordHash = sessionStorage.scs_hash
        /\ auth[i].passwordHash.password \in Passwords

ReloadRestores ==
    Reloaded =>
        IF StoredItems
        THEN /\ currentEmail' = sessionStorage.scs_email
             /\ currentPasswordHash' = sessionStorage.scs_hash
             /\ currentSalt' = sessionStorage.scs_salt
             /\ screen' = "dashboard-screen"
        ELSE /\ NoSession(currentEmail', currentPasswordHash', currentSalt')
             /\ screen' = "auth-screen"
             /\ ~downloadModal' /\ ~deleteModal'

\* Without a session only the register and login forms are shown.
SignedOut == IsNull(currentPasswordHash) => screen = "auth-screen"

\* C9, amended: a page reload in the same tab re-establishes the session
\* without a password entry exactly when sessionStorage holds the email,
\* token and salt, which only a successful register or login with the
\* password stores; otherwise the reloaded page has no session and shows
\* only the register and login forms.
C9_ReloadRestoresStoredSession ==
    /\ [](StoredItems => StoredByPasswordEntry)
    /\ []SignedOut
    /\ [][ReloadRestores]_vars

\* After a reload an upload runs in the restored session; the password was
\* entered once, before the reload.
C9_Witness ==
    /\ reloads = 1
    /\ Started(auth) = 1
    /\ screen = "dashboard-screen"
    /\ currentPasswordHash = sessionStorage.scs_hash
    /\ \E i \in DOMAIN up : up[i].pc = "saving" \/ up[i].pc = "saving-blob"

(***************************************************************************)
(* encryptFile and decryptFile on chosen inputs                            *)
(***************************************************************************)
Plaintexts == {Data(""), Data("hello world"), Data("50 MB")}

\* What encryptFile is given as password: a typed password, or the
\* authentication token as handleFileUpload passes it.
CipherPasswords ==
    Passwords \cup {hashPassword(p, AuthSalt(e)) : p \in AccountPasswords, e \in Emails}

\* Bytes of the random salt and iv after the first: 7 prints as one hex digit.
RandomBytes == {7, 171}

InitRT ==
    /\ AppInit
    /\ localStorage = NoSettings
    /\ provider = initStorage(localStorage, TRUE)
    /\ dashboard = Untraced
    /\ \E data \in Plaintexts, password \in CipherPasswords, n \in 0..MaxDraws,
          bs \in RandomBytes, bi \in RandomBytes :
          rt = [pc |-> "chosen", data |-> data, password |-> password,
                n |-> n, bs |-> bs, bi |-> bi]

appState == <<sessionVars, appVars, taskVars, rng, backendVars, wireVars, localStorage,
              countVars, dashboard>>

RtEncrypt ==
    /\ rt.pc = "chosen"
    /\ rt' = [pc |-> "encrypted", data |-> rt.data, password |-> rt.password,
              encrypted |-> encryptFile(rt.data, rt.password, rt.n, rt.bs, rt.bi)]
    /\ UNCHANGED appState

RtDecrypt ==
    /\ rt.pc = "encrypted"
    /\ rt' = [pc |-> "decrypted", data |-> rt.data, password |-> rt.password,
              encrypted |-> rt.encrypted,
              decrypted |-> decryptFile(rt.encrypted.ciphertext, rt.encrypted.iv,
                                        rt.encrypted.salt, rt.password)]
    /\ UNCHANGED appState

\* Ways the ciphertext of an envelope is changed before it is decrypted.
Alterations == {"bit flipped", "truncated", "replaced"}

\* A changed ciphertext: damaged bytes, or the ciphertext of a later
\* encryptFile call on the same plaintext and password.
Altered(ciphertext, how, data, password, bs, bi) ==
    IF how = "replaced"
    THEN encryptFile(data, password, MaxDraws + 2, bs, bi).ciphertext
    ELSE [ciphertext EXCEPT !.intact = FALSE]

RtAlter(how) ==
    /\ rt.pc = "encrypted"
    /\ \E bs \in RandomBytes, bi \in RandomBytes :
          rt' = [pc |-> "altered", how |-> how, data |-> rt.data, password |-> rt.password,
                 encrypted |-> rt.encrypted,
                 stored |-> Altered(rt.encrypted.ciphertext, how, rt.data, rt.password,
                                    bs, bi)]
    /\ UNCHANGED appState

\* decryptFile on the changed ciphertext with the password, iv and salt of
\* the envelope.
RtDecryptAltered ==
    /\ rt.pc = "altered"
    /\ rt' = [pc |-> "opened", how |-> rt.how, data |-> rt.data, password |-> rt.password,
              encrypted |-> rt.encrypted, stored |-> rt.stored,
              decrypted |-> decryptFile(rt.stored, rt.encrypted.iv, rt.encrypted.salt,
                                        rt.password)]
    /\ UNCHANGED appState

\* What is typed into register-email and login-email: one address in
\* several spellings, and another address.
EmailInputs ==
    {Str(<<"u", "@", "x", ".", "i", "o">>),
     Str(<<"U", "@", "x", ".", "i", "o">>),
     Str(<<" ", "u", "@", "x", ".", "i", "o">>),
     Str(<<"U", "@", "x", ".", "i", "o", " ">>),
     Str(<<"v", "@", "x", ".", "i", "o">>)}

\* The authentication salt and token as the register handler, the login
\* handler and performDecrypt compute them: the handlers from the trimmed
\* input, performDecrypt from the currentEmail the register handler saved.
RtAuthSalt ==
    /\ rt.pc = "chosen"
    /\ \E typedAtRegister \in EmailInputs, typedAtLogin \in EmailInputs,
          password \in AccountPasswords :
          LET registerEmail == Str(Trim(typedAtRegister.v))
              loginEmail == Str(Trim(typedAtLogin.v))
          IN /\ validateEmail(registerEmail)
             /\ validateEmail(loginEmail)
             /\ rt' = [pc |-> "salted", typedAtRegister |-> typedAtRegister,
                       typedAtLogin |-> typedAtLogin, password |-> password,
                       registerSalt |-> AuthSalt(registerEmail),
                       registerSaltHex |-> AuthSaltHex(registerEmail),
                       registerHash |-> RegisterCredential(password, AuthSalt(registerEmail)),
                       loginSalt |-> AuthSalt(loginEmail),
                       loginHash |-> hashPassword(password, AuthSalt(loginEmail)),
                       downloadSalt |-> AuthSalt(registerEmail),
                       enteredHash |-> EnteredHash(password, registerEmail)]
    /\ UNCHANGED appState

\* Ways the stored iv or salt of an envelope is malformed when it reaches
\* decryptFile.
Malformations == {"salt of 15 bytes", "iv of 11 bytes", "salt not hex", "iv not hex"}

Shortened(hex) == SubSeq(hex, 1, Len(hex) - 2)
NotHex(hex) == <<"z", "z">> \o SubSeq(hex, 3, Len(hex))

MalformedSalt(salt, how) ==
    CASE how = "salt of 15 bytes" -> Shortened(salt)
      [] how = "salt not hex" -> NotHex(salt)
      [] OTHER -> salt

MalformedIv(iv, how) ==
    CASE how = "iv of 11 bytes" -> Shortened(iv)
      [] how = "iv not hex" -> NotHex(iv)
      [] OTHER -> iv

\* decryptFile on the ciphertext of the envelope with a malformed iv or salt.
RtDecryptMalformed(how) ==
    /\ rt.pc = "encrypted"
    /\ LET ivHex == MalformedIv(rt.encrypted.iv, how)
           saltHex == MalformedSalt(rt.encrypted.salt, how)
       IN rt' = [pc |-> "misread", how |-> how, data |-> rt.data, password |-> rt.password,
                 encrypted |-> rt.encrypted, ivHex |-> ivHex, saltHex |-> saltHex,
                 iv |-> hexToBytes(ivHex), salt |-> hexToBytes(saltHex),
                 decrypted |-> decryptFile(rt.encrypted.ciphertext, ivHex, saltHex,
                                           rt.password)]
    /\ UNCHANGED appState

\* What localStorage can hold when initStorage runs: each item missing,
\* empty or set, the provider also set to a value the dialog does not offer.
StoredSettings ==
    [scs_provider : {Null, Str(<<>>), Text("managed"), Text("supabase"), Text("local"),
                     Text("dropbox")},
     scs_supabase_url : {Null, Str(<<>>)} \cup SupabaseUrls,
     scs_supabase_key : {Null, Str(<<>>)} \cup SupabaseKeys]

StorageOperations == {"saveFile", "listFiles", "getFileBlob", "deleteFile", "getMetadata"}

NoProviderConfigured == Error("Error", <<"No", "storage", "provider", "configured.">>)

\* An SCSStorage operation: throws without a provider, else hands the call
\* to the provider.
SCSStorage(currentProvider, operation) ==
    IF currentProvider = NoProvider THEN NoProviderConfigured
    ELSE [k |-> "call", provider |-> currentProvider, operation |-> operation]

\* initStorage runs on the stored settings.
RtInitStorage ==
    /\ rt.pc = "chosen"
    /\ \E stored \in StoredSettings, created \in BOOLEAN :
          rt' = [pc |-> "configured", stored |-> stored, created |-> created,
                 before |-> NoProvider, currentProvider |-> initStorage(stored, created)]
    /\ UNCHANGED appState

\* Every SCSStorage operation is called, before and after initStorage.
RtStorageCalls ==
    /\ rt.pc = "configured"
    /\ rt' = [pc |-> "called", stored |-> rt.stored, created |-> rt.created,
              before |-> rt.before, currentProvider |-> rt.currentProvider,
              early |-> [o \in StorageOperations |-> SCSStorage(rt.before, o)],
              results |-> [o \in StorageOperations |-> SCSStorage(rt.currentProvider, o)]]
    /\ UNCHANGED appState

NextRT ==
    \/ RtInitStorage
    \/ RtStorageCalls
    \/ \E how \in Malformations : RtDecryptMalformed(how)
    \/ RtEncrypt
    \/ RtDecrypt
    \/ \E how \in Alterations : RtAlter(how)
    \/ RtDecryptAltered
    \/ RtAuthSalt

SpecRT == InitRT /\ [][NextRT]_vars

\* C10: round trip: decryptFile applied to the ciphertext, iv and salt that
\* encryptFile(P, W) returned, with the same W, returns exactly P.
C10_RoundTrip == rt.pc = "decrypted" => rt.decrypted = rt.data

\* A round trip was made whose salt and iv hold bytes below 16.
C10_Witness ==
    /\ rt.pc = "decrypted"
    /\ rt.data = Data("hello world")
    /\ rt.password \in AccountPasswords
    /\ \E i \in 1..IV_BYTES : rt.encrypted.ciphertext.iv[i] < 16
    /\ Len(rt.encrypted.salt) = 2 * SALT_BYTES

(***************************************************************************)
(* Tamper detection                                                        *)
(***************************************************************************)
\* C11: when the stored ciphertext of an envelope is changed in any way,
\* decryptFile with the correct password, iv and salt fails with the
\* authentication error and returns no plaintext.
C11_AlteredCiphertextRejected ==
    rt.pc = "opened" =>
        /\ rt.stored # rt.encrypted.ciphertext
        /\ rt.decrypted = OperationError

\* A ciphertext with a flipped bit was given to decryptFile.
C11_Witness ==
    /\ rt.pc = "opened"
    /\ rt.how = "bit flipped"
    /\ rt.stored.data = rt.data
    /\ rt.decrypted.k = "error"

(***************************************************************************)
(* Download with a wrong password                                          *)
(***************************************************************************)
\* decryptFile is about to run on a file a session encrypted, and the
\* password typed in the decrypt dialog is not that session's password.
WrongPasswordEntered(d) ==
    /\ d.pc = "decrypting"
    /\ d.ciphertext.key.password.k = "PBKDF2-bits"
    /\ d.password # d.ciphertext.key.password.password

DecryptionFailed(d) == d.pc = "failed" /\ d.title = "Decryption Failed" /\ IsNull(d.saved)

WrongPasswordFails ==
    \A i \in DOMAIN down :
        (WrongPasswordEntered(down[i]) /\ down'[i] # down[i] /\ ~Reloaded) =>
            DecryptionFailed(down'[i])

\* A download past decryptFile was made with the uploading session's password.
ReleasedWithRightPassword ==
    \A i \in DOMAIN down :
        (down[i].pc \in {"verifying", "pause", "released"}
            /\ down[i].ciphertext.key.password.k = "PBKDF2-bits") =>
                down[i].password = down[i].ciphertext.key.password.password

\* C12: a download in which the password entered in the decrypt dialog
\* differs from the password of the session that uploaded the file ends,
\* when decryptFile runs, in 'Decryption Failed' and releases no plaintext.
C12_WrongPasswordFails == []ReleasedWithRightPassword /\ [][WrongPasswordFails]_vars

\* An intact stored file was downloaded with a wrong password and the
\* download ended in 'Decryption Failed'.
C12_Witness ==
    /\ tampers = 0
    /\ \E i \in DOMAIN up : up[i].pc = "done"
    /\ Cardinality({i \in DOMAIN up : up[i].pc # "idle"}) = 1
    /\ \E i \in DOMAIN down :
          DecryptionFailed(down[i]) /\ down[i].password \notin AccountPasswords

(***************************************************************************)
(* Substituted envelopes                                                   *)
(***************************************************************************)
\* C13: when the stored ciphertext, iv and salt of a file are replaced by
\* those of another validly encrypted envelope and the stored file_hash is
\* kept, a download fails authentication or the hash comparison: the
\* substituted plaintext is never released.
C13_SubstituteNeverReleased ==
    \A i \in DOMAIN down :
        LET d == down[i]
        IN /\ ("decrypted" \in DOMAIN d /\ d.decrypted = Data("substituted")) =>
                  d.pc = "verifying"
           /\ d.pc = "released" => d.saved.content # Data("substituted")

\* A substituted envelope encrypted under the session's token is stored, and
\* a download of it ended in the hash comparison.
C13_Witness ==
    /\ \E e \in bucket : e.val.data = Data("substituted") /\ e.val.key.password = currentPasswordHash
    /\ \E i \in DOMAIN down : down[i].pc = "failed" /\ down[i].title = "Integrity Check Failed"

(***************************************************************************)
(* Error states of a download                                              *)
(***************************************************************************)
Reported(d, title) == d.pc = "failed" /\ d.title = title

\* The tag of the fetched ciphertext does not verify: decryptFile throws.
TagFails(d) == d.pc = "decrypting" /\ ~TagChecked(d)

\* The tag verified and the digest of the plaintext is not the stored one.
DigestDiffers(d) == d.pc = "verifying" /\ hashFile(d.decrypted) # d.metadata.file_hash

FailuresReportedDistinctly ==
    \A i \in DOMAIN down :
        (down'[i] # down[i] /\ ~Reloaded) =>
            /\ TagFails(down[i]) => Reported(down'[i], "Decryption Failed")
            /\ DigestDiffers(down[i]) => Reported(down'[i], "Integrity Check Failed")

\* C14: a post-decryption digest mismatch is always reported as 'Integrity
\* Check Failed' and an AES-GCM tag failure always as 'Decryption Failed',
\* never with the other's message and never as 'Download Failed'.
C14_FailuresReportedDistinctly == [][FailuresReportedDistinctly]_vars

\* The stored digest was forged and the download of the file reported the
\* digest mismatch.
C14_Witness ==
    /\ \E e \in table : e.val.file_hash = hashFile(Data("forged"))
    /\ \E i \in DOMAIN down : Reported(down[i], "Integrity Check Failed")

(***************************************************************************)
(* Download of a corrupted file                                            *)
(***************************************************************************)
\* decryptFile is about to run on a corrupted stored ciphertext, with the
\* password of the session that uploaded it.
CorruptedFileFetched(d) ==
    /\ d.pc = "decrypting"
    /\ ~d.ciphertext.intact
    /\ d.ciphertext.key.password.k = "PBKDF2-bits"
    /\ d.password = d.ciphertext.key.password.password

CorruptedFileFailsDecryption ==
    \A i \in DOMAIN down :
        (CorruptedFileFetched(down[i]) /\ down'[i] # down[i] /\ ~Reloaded) =>
            Reported(down'[i], "Decryption Failed") /\ IsNull(down'[i].saved)

\* No download gets past decryptFile with a corrupted ciphertext.
CorruptedNeverDecrypted ==
    \A i \in DOMAIN down :
        down[i].pc \in {"verifying", "pause", "released"} => down[i].ciphertext.intact

Encrypted(u) == "encrypted" \in DOMAIN u

\* C16: no two envelopes produced by encryptFile, in any sequence of uploads,
\* share an iv, a salt or a ciphertext, also when plaintext, user and
\* password are the same.  (crypto.getRandomValues is taken to return a
\* value it has not returned before.)
C16_FreshIvAndSalt ==
    \A i \in DOMAIN up : \A j \in DOMAIN up :
        (i # j /\ Encrypted(up[i]) /\ Encrypted(up[j])) =>
            /\ up[i].encrypted.iv # up[j].encrypted.iv
            /\ up[i].encrypted.salt # up[j].encrypted.salt
            /\ up[i].encrypted.ciphertext # up[j].encrypted.ciphertext

\* Two uploads have encrypted the same plaintext under the same password.
C16_Witness ==
    \E i \in DOMAIN up : \E j \in DOMAIN up :
        /\ i # j /\ Encrypted(up[i]) /\ Encrypted(up[j])
        /\ up[i].file = up[j].file
        /\ up[i].encrypted.ciphertext.key.password = up[j].encrypted.ciphertext.key.password
        /\ up[i].encrypted.ciphertext.key.password.k = "PBKDF2-bits"

(***************************************************************************)
(* The authentication salt                                                 *)
(***************************************************************************)
\* The typed address, lower-cased and trimmed.
Canonical(typed) == Trim([i \in 1..Len(typed.v) |-> ToLowerChar(typed.v[i])])

\* C17: for two email inputs that are equal after trimming and lower-casing,
\* the authentication salt of the register handler, of the login handler
\* and of performDecrypt is the same value, the first 16 bytes of the
\* SHA-256 of the normalized email, and the same password gives the same
\* authentication token at the three places.
C17_AuthSaltDeterministic ==
    (rt.pc = "salted" /\ Canonical(rt.typedAtRegister) = Canonical(rt.typedAtLogin)) =>
        /\ rt.registerSalt = [k |-> "SHA-256[0:16]", data |-> Canonical(rt.typedAtRegister)]
        /\ rt.loginSalt = rt.registerSalt
        /\ rt.downloadSalt = rt.registerSalt
        /\ rt.registerSaltHex.of = rt.registerSalt
        /\ rt.loginHash = rt.registerHash
        /\ rt.enteredHash = rt.registerHash

\* The address was typed with a capital letter and a trailing blank at
\* registration and in lower case at login.
C17_Witness ==
    /\ rt.pc = "salted"
    /\ rt.typedAtRegister = Str(<<"U", "@", "x", ".", "i", "o", " ">>)
    /\ rt.typedAtLogin = Str(<<"u", "@", "x", ".", "i", "o">>)
    /\ rt.loginHash.k = "PBKDF2-bits"

(***************************************************************************)
(* Malformed iv and salt                                                   *)
(***************************************************************************)
\* C18: decryptFile given a salt that is not 16 bytes, an iv that is not 12
\* bytes, or an iv or salt with characters that are not hexadecimal digits,
\* ends in an InvalidInput error; the malformed bytes are never converted
\* and used.
C18_MalformedHexRejected ==
    rt.pc = "misread" => rt.decrypted.k = "error" /\ rt.decrypted.name = "InvalidInput"

(***************************************************************************)
(* The upload size limit                                                   *)
(***************************************************************************)
\* Exactly the files of more than 50 * 1024 * 1024 bytes are rejected, and a
\* rejected file is neither read nor encrypted.
RejectedAreOverLimit ==
    \A i \in DOMAIN up :
        /\ up[i].pc = "too-large" =>
              up[i].file.size >= 50 * 1024 * 1024 + 1 /\ ~Encrypted(up[i])
        /\ ("file" \in DOMAIN up[i] /\ up[i].pc # "too-large") =>
              up[i].file.size <= 50 * 1024 * 1024

\* The step that rejects a file leaves isUploading false and sends nothing
\* to the backend or to Supabase, and a rejected upload goes no further.
RejectionDoesNothing ==
    \A i \in DOMAIN up :
        /\ (up[i].pc # "too-large" /\ up'[i].pc = "too-large") =>
              /\ ~isUploading /\ ~isUploading'
              /\ UNCHANGED <<wireVars, backendVars, rng>>
        /\ up[i].pc = "too-large" => up'[i] = up[i]

\* C19: the size check accepts a file of exactly 50 MB and rejects one of
\* 50 MB + 1 byte before any read or encryption; the rejection leaves
\* isUploading false and makes no storage call.
C19_SizeLimit == []RejectedAreOverLimit /\ [][RejectionDoesNothing]_vars

\* A file of 50 MB + 1 byte was rejected and one of exactly 50 MB encrypted.
C19_Witness ==
    /\ \E i \in DOMAIN up :
          up[i].pc = "too-large" /\ up[i].file.size = 50 * 1024 * 1024 + 1
    /\ \E i \in DOMAIN up :
          Encrypted(up[i]) /\ up[i].file.size = 50 * 1024 * 1024

(***************************************************************************)
(* Encryption completes before the upload is sent                          *)
(***************************************************************************)
\* The metadata names the iv and the salt the blob was encrypted with and
\* the SHA-256 of the plaintext inside it.
DescribesBlob(metadata, blob) ==
    /\ blob.k = "AES-GCM"
    /\ metadata.iv = bufferToHex(blob.iv)
    /\ metadata.salt = bufferToHex(blob.key.salt)
    /\ metadata.file_hash = hashFile(blob.data)

\* SCSStorage.saveFile has been called for the upload.
SaveFileCalled(u) == "metadata" \in DOMAIN u

SavedEnvelopeComplete ==
    /\ \A i \in DOMAIN up :
          SaveFileCalled(up[i]) =>
              /\ Encrypted(up[i])
              /\ Len(up[i].encrypted.iv) = 2 * IV_BYTES
              /\ Len(up[i].encrypted.salt) = 2 * SALT_BYTES
              /\ up[i].encrypted.fileHash = hashFile(up[i].file.data)
              /\ up[i].metadata.iv = up[i].encrypted.iv
              /\ up[i].metadata.salt = up[i].encrypted.salt
              /\ up[i].metadata.file_hash = up[i].encrypted.fileHash
              /\ DescribesBlob(up[i].metadata, up[i].encrypted.ciphertext)
    /\ \A m \in apiReceived : m.op = "upload" => DescribesBlob(m.metadata, m.file)

\* saveFile is called only by the step that follows encryptFile's return.
SaveFollowsEncrypt ==
    \A i \in DOMAIN up :
        (~SaveFileCalled(up[i]) /\ SaveFileCalled(up'[i])) =>
            /\ up[i].pc = "encrypting" /\ Encrypted(up[i])
            /\ up'[i].encrypted = up[i].encrypted

\* C20: in one upload encryptFile has returned the whole envelope before
\* saveFile is called, and the metadata given to saveFile carries the iv,
\* salt and fileHash of the envelope whose ciphertext is the uploaded blob.
C20_EncryptThenSave == []SavedEnvelopeComplete /\ [][SaveFollowsEncrypt]_vars

\* An upload form has reached the backend and an upload has called saveFile.
C20_Witness ==
    /\ \E m \in apiReceived : m.op = "upload" /\ DescribesBlob(m.metadata, m.file)
    /\ \E i \in DOMAIN up : SaveFileCalled(up[i]) /\ up[i].pc \in {"saving", "saving-blob"}

(***************************************************************************)
(* The file key across sessions                                            *)
(***************************************************************************)
\* The key decryptFile derives in the download.
DownloadKey(d) == deriveKey(d.enteredHash, hexToBytes(d.metadata.salt))

\* The entered password is the password of the account of the session.
AccountPasswordEntered(d) ==
    \E u \in users : u.password_hash = hashPassword(d.password, AuthSalt(u.email))

\* C21: when a download is about to decrypt an envelope an upload stored
\* under the account, the key it derives is the key of the upload if and
\* only if the entered password is the account password (in runs where the
\* storage was not tampered with).
C21_SameKeyIffPassword ==
    tampers = 0 =>
        \A i \in DOMAIN down :
            down[i].pc = "decrypting" =>
                (DownloadKey(down[i]) = down[i].ciphertext.key
                    <=> AccountPasswordEntered(down[i]))

(***************************************************************************)
(* The in-progress flag is cleared                                         *)
(***************************************************************************)
\* C22: whenever isUploading is set it is cleared again, whether the upload
\* ends in success, in a read or encryption error or in a storage error
\* (every promise the upload awaits being settled).
C22_FlagCleared == isUploading ~> ~isUploading

\* An upload ended in a storage error, after saveFile was called, and the
\* flag is clear.
C22_Witness ==
    /\ ~isUploading
    /\ \E i \in DOMAIN up : up[i].pc = "failed" /\ SaveFileCalled(up[i])
    /\ \E i \in DOMAIN up : up[i].pc = "done"

(***************************************************************************)
(* A failed registration or login                                          *)
(***************************************************************************)
\* The register or login handler i ends in its catch block in this step.
AuthFailing(i) == auth[i].pc = "requesting" /\ auth'[i].pc = "failed"

FailedAuthKeepsSession ==
    \A i \in DOMAIN auth :
        AuthFailing(i) =>
            /\ currentEmail' = currentEmail
            /\ currentPasswordHash' = currentPasswordHash
            /\ currentSalt' = currentSalt
            /\ sessionStorage' = sessionStorage
            /\ screen' = screen

\* C23: a registration or login whose derivation or request fails leaves
\* currentEmail, currentPasswordHash, currentSalt and the sessionStorage
\* entries as they were and does not enter the dashboard.
C23_FailedAuthKeepsSession == [][FailedAuthKeepsSession]_vars

\* A registration or login failed in its derivation while the session of a
\* completed one was established.
C23_Witness ==
    /\ ~IsNull(currentEmail)
    /\ sessionStorage.scs_email = currentEmail
    /\ \E i \in DOMAIN auth : \E j \in DOMAIN auth :
          /\ auth[i].pc = "failed" /\ ~auth[i].derived
          /\ auth[j].pc = "done"

(***************************************************************************)
(* The in-memory session                                                   *)
(***************************************************************************)
SessionSet == ~IsNull(currentEmail) /\ ~IsNull(currentPasswordHash) /\ ~IsNull(currentSalt)
SessionNull == IsNull(currentEmail) /\ IsNull(currentPasswordHash) /\ IsNull(currentSalt)

\* C24: after any sequence of saveSession, restoreSession and clearSession
\* the three session variables are all set or all null, and when set they
\* are the three items held in sessionStorage.
C24_SessionAllOrNothing ==
    /\ SessionSet \/ SessionNull
    /\ SessionSet =>
          sessionStorage = [scs_email |-> currentEmail, scs_hash |-> currentPasswordHash,
                            scs_salt |-> currentSalt]

\* A registration and a login have saved the session and a reload has
\* restored it.
C24_Witness ==
    /\ SessionSet
    /\ reloads = 1
    /\ \A i \in DOMAIN auth : auth[i].pc = "done"
    /\ \E i \in DOMAIN auth : auth[i].kind = "login"

(***************************************************************************)
(* One file per decrypt run                                                *)
(***************************************************************************)
\* The run asks for the ciphertext of the file whose metadata it asked for.
BlobOfChosenFile ==
    \A i \in DOMAIN down :
        (down[i].pc = "fetch-meta" /\ down'[i].pc = "fetch-blob") =>
            down'[i].filename = down[i].filename

\* C25: within one performDecrypt run the metadata and the ciphertext belong
\* to the file chosen when the decrypt dialog was opened, also when the
\* dialog is closed and startDownloadFlow is called for another file while
\* the run awaits the storage.
C25_OneFilePerRun == [][BlobOfChosenFile]_vars

(***************************************************************************)
(* A delete that succeeded in storage                                      *)
(***************************************************************************)
\* SCSStorage.deleteFile of the delete returned without throwing.
DeleteFileReturned(d) == "returned" \in DOMAIN d

\* C26: a confirmed delete whose storage call succeeds is reported as
\* success, whatever is clicked in the delete dialog while the call is in
\* flight.
C26_SucceededDeleteReported ==
    \A i \in DOMAIN del : DeleteFileReturned(del[i]) => del[i].pc = "done"

(***************************************************************************)
(* A storage provider is always configured                                 *)
(***************************************************************************)
\* The stored setting selects Supabase (or nothing, which means managed
\* Supabase) and the Supabase client cannot be set up.
SupabaseUnavailable(stored, created) ==
    LET p == stored.scs_provider
        missing(x) == x = Null \/ x = Str(<<>>)
    IN \/ (p = Text("supabase") /\ (~created \/ missing(stored.scs_supabase_url)
                                              \/ missing(stored.scs_supabase_key)))
       \/ (p \in {Null, Str(<<>>), Text("managed")} /\ ~created)

\* C30: after initStorage, for every stored provider setting, a provider is
\* configured, the Local Server provider whenever Supabase initialization
\* fails; no SCSStorage operation then fails with 'No storage provider
\* configured.', which every operation raises when no provider is set.
C30_ProviderConfigured ==
    /\ rt.pc \in {"configured", "called"} =>
          /\ rt.currentProvider \in Providers
          /\ SupabaseUnavailable(rt.stored, rt.created) => rt.currentProvider = "Local Server"
          /\ rt.stored.scs_provider \in {Text("local"), Text("dropbox")} =>
                rt.currentProvider = "Local Server"
    /\ rt.pc = "called" =>
          \A o \in StorageOperations :
              /\ rt.results[o] # NoProviderConfigured
              /\ rt.results[o].provider = rt.currentProvider
              /\ rt.early[o] = NoProviderConfigured

\* Supabase was selected without a key, initStorage fell back, and the
\* operations were called.
C30_Witness ==
    /\ rt.pc = "called"
    /\ rt.stored.scs_provider = Text("supabase")
    /\ rt.stored.scs_supabase_key = Null
    /\ rt.results["listFiles"].provider = "Local Server"

(***************************************************************************)
(* The cached file list                                                    *)
(***************************************************************************)
\* The account a listed file belongs to.
Owner(entry) == entry[1]

\* C27: cachedFiles only ever holds files of the currently logged-in user;
\* after a logout, and after a login as another user, no entry of the
\* previous user is left in it.
C27_CacheOfCurrentUser == \A entry \in dashboard.cachedFiles : Owner(entry) = currentEmail

\* C28: once every overlapping loadFiles call has completed, cachedFiles is
\* the result of the listing that was started last.
C28_LatestListingWins ==
    (dashboard.lists = <<>> /\ dashboard.latest.pc = "done") =>
        dashboard.cachedFiles = dashboard.latest.data

(***************************************************************************)
(* The upload progress view                                                *)
(***************************************************************************)
\* C29: while isUploading is true the upload progress view is displayed; the
\* timer of an earlier successful upload does not hide it.
C29_ProgressShownWhileUploading == isUploading => dashboard.zone = "upload-progress"

====
